---- MODULE Spec2Model ----
(***************************************************************************)
(* Task / subtask lifecycle and audit model of the task management system. *)
(* The database tables are the state; every HTTP handler that writes is    *)
(* one action which carries the whole handler (validation, writes, status  *)
(* recomputation, audit entry).                                            *)
(*                                                                         *)
(* Columns that no handler reads back (created_at, updated_at,             *)
(* assigned_at, TaskAction.timestamp, descriptions) are not carried.       *)
(***************************************************************************)
EXTENDS Integers, Sequences, FiniteSets, Bags, TLC

VARIABLES
    tasks,          \* Task rows:        pk -> [title, date, status, template, created_by]
    subtasks,       \* Subtask rows:     pk -> [task, name, status, order, started_at, completed_at]
    assignments,    \* SubtaskAssignment rows: bag of <<subtask pk, user>>
    actions,        \* TaskAction rows in insertion order
    nextTaskId,     \* next Task pk (auto-increment, never reused)
    nextSubtaskId,  \* next Subtask pk
    templates,      \* TaskTemplate rows: pk -> [name, is_active, available_for_managers]
    items,          \* SubtaskTemplateItem rows: pk -> [name]
    links,          \* SubtaskTemplate rows: set of [task_template, subtask_item, order]
    now,            \* the value timezone.now() returns
    message,        \* the flash message the last handler queued (django.contrib.messages)
    response,       \* the last HTTP exchange: [view, user, status]; the handlers
                    \* below do not read it, the specifications set it
    nextTemplateId, \* next TaskTemplate pk
    requests        \* the requests being served: worker -> the handler's local
                    \* variables and its position; only the interleaved
                    \* specifications use it

vars == <<tasks, subtasks, assignments, actions, nextTaskId, nextSubtaskId,
          templates, items, links, now, message, response, nextTemplateId, requests>>

----------------------------------------------------------------------------
(* Bounds of the model *)

MaxTasks == 2
MaxSubtasks == 2

\* the audit log holds at most this many rows: with every request enabled,
\* and with the lifecycle requests alone
MaxActions == 3
MaxLifecycleActions == 4
MaxAccessActions == 2

\* the highest TaskTemplate pk handed out, and the audit rows written while
\* templates are being managed
MaxTemplates == 4
MaxTemplateActions == 1

\* the requests one worker serves
MaxRequests == 2

\* the tasks on the dashboard and the last day one is dated on
MaxDashboardTasks == 4
MaxDay == 7

\* the instants at which the clock is read, in seconds: the second one is
\* an hour, a minute and half a minute after the first
Instants == {0, 3690}

\* a null column
None == -1

\* the server's workers: each serves one request at a time
Workers == {1, 2}

\* a worker between two requests, and the requests it has served
Idle == [pc |-> "idle", served |-> 0]

----------------------------------------------------------------------------
(* Users and roles *)

Users == {"ann", "bob", "eve"}

Role(u) ==
    CASE u = "ann" -> "admin"
      [] u = "bob" -> "manager"
      [] OTHER     -> "employee"

is_admin(u) == Role(u) = "admin"

is_manager(u) == Role(u) = "manager"

is_employee(u) == Role(u) = "employee"

can_create_tasks(u) == Role(u) \in {"admin", "manager"}

can_manage_templates(u) == Role(u) = "admin"

\* ManagerRequiredMixin.test_func reduced to the is_authenticated test
ManagerRequired_any_user(u) == u \in Users

\* ManagerRequiredMixin.test_func (every user of the model is authenticated)
ManagerRequired(u) == can_create_tasks(u)

\* ManagerOrAdminMixin: role in required_roles
ManagerOrAdmin(u) == Role(u) \in {"admin", "manager"}

----------------------------------------------------------------------------
(* Generic helpers *)

Perms(S) ==
    {q \in [1..Cardinality(S) -> S] : \A i, j \in 1..Cardinality(S) : i # j => q[i] # q[j]}

\* every listing of S in non-decreasing key order: what ORDER BY key may
\* return (rows with equal keys come in an order the database picks)
OrderBy(S, key(_)) ==
    {q \in Perms(S) : \A i \in 1..(Cardinality(S) - 1) : key(q[i]) <= key(q[i + 1])}

Range(f) == {f[x] : x \in DOMAIN f}

\* int(x / y) of Python for y > 0: truncation toward zero
TruncDiv(x, y) == IF x >= 0 THEN x \div y ELSE -((-x) \div y)

\* the database as one value
DB ==
    [tasks |-> tasks, subtasks |-> subtasks, assignments |-> assignments,
     actions |-> actions, nextTaskId |-> nextTaskId, nextSubtaskId |-> nextSubtaskId]

Commit(db) ==
    /\ tasks' = db.tasks
    /\ subtasks' = db.subtasks
    /\ assignments' = db.assignments
    /\ actions' = db.actions
    /\ nextTaskId' = db.nextTaskId
    /\ nextSubtaskId' = db.nextSubtaskId

\* messages.success / messages.error: the level, the text (named by its
\* handler) and the value interpolated into it, in the requesting user's session
Message(level, text, arg, u) ==
    [level |-> level, text |-> text, arg |-> arg, user |-> u]

\* no exchange yet
NoResponse == [view |-> "none", user |-> "none", status |-> "none"]

\* a response that writes nothing and queues no message (403, 404, 400, or a
\* re-rendered form)
Refused == UNCHANGED <<tasks, subtasks, assignments, actions, nextTaskId, nextSubtaskId, message>>

SubtasksOf(db, t) == {s \in DOMAIN db.subtasks : db.subtasks[s].task = t}

Assigned(db, s, u) == BagIn(<<s, u>>, db.assignments)

Assignees(db, s) == {u \in Users : Assigned(db, s, u)}

----------------------------------------------------------------------------
(* Task model *)

\* update_status with the 'any started' test ahead of the 'all completed' test
update_status_any_first(db, t) ==
    LET subs == SubtasksOf(db, t)
        st == IF subs = {} THEN "available"
              ELSE IF \E s \in subs : db.subtasks[s].status \in {"in_progress", "completed"}
                   THEN "in_progress"
              ELSE IF \A s \in subs : db.subtasks[s].status = "completed" THEN "completed"
              ELSE "available"
    IN  [db EXCEPT !.tasks[t].status = st]

\* Task.update_status
update_status(db, t) ==
    LET subs == SubtasksOf(db, t)
        st == IF subs = {} THEN "available"
              ELSE IF \A s \in subs : db.subtasks[s].status = "completed" THEN "completed"
              ELSE IF \E s \in subs : db.subtasks[s].status \in {"in_progress", "completed"}
                   THEN "in_progress"
              ELSE "available"
    IN  [db EXCEPT !.tasks[t].status = st]

----------------------------------------------------------------------------
(* Subtask model *)

isoformat(t) == IF t = None THEN <<"null">> ELSE <<"iso", t>>

\* Subtask.get_duration_minutes
get_duration_minutes(row) ==
    IF row.started_at # None /\ row.completed_at # None
    THEN TruncDiv(row.completed_at - row.started_at, 60)
    ELSE 0

\* Subtask.get_duration_formatted
get_duration_formatted(row) ==
    IF row.started_at = None \/ row.completed_at = None
    THEN [fmt |-> "not completed"]
    ELSE LET duration == row.completed_at - row.started_at
             hours == duration \div 3600
             minutes == (duration % 3600) \div 60
         IN  IF hours > 0
             THEN [fmt |-> "Hh Mm", hours |-> hours, minutes |-> minutes]
             ELSE [fmt |-> "Mm", minutes |-> minutes]

\* mark_in_progress that moves the status but does not stamp started_at
mark_in_progress_no_stamp(db, s, t) ==
    IF db.subtasks[s].status = "pending"
    THEN update_status([db EXCEPT !.subtasks[s].status = "in_progress"], db.subtasks[s].task)
    ELSE db

\* mark_in_progress without the test on the current status
mark_in_progress_unguarded(db, s, t) ==
    LET d1 == [db EXCEPT !.subtasks[s].status = "in_progress",
                         !.subtasks[s].started_at = t]
    IN  update_status(d1, db.subtasks[s].task)

\* mark_in_progress that saves the subtask and leaves the parent task alone
mark_in_progress_no_recompute(db, s, t) ==
    IF db.subtasks[s].status = "pending"
    THEN [db EXCEPT !.subtasks[s].status = "in_progress", !.subtasks[s].started_at = t]
    ELSE db

\* mark_in_progress that stamps started_at and leaves the status pending
mark_in_progress_stamp_only(db, s, t) ==
    IF db.subtasks[s].status = "pending"
    THEN update_status([db EXCEPT !.subtasks[s].started_at = t], db.subtasks[s].task)
    ELSE db

\* Subtask.mark_in_progress
mark_in_progress(db, s, t) ==
    IF db.subtasks[s].status = "pending"
    THEN update_status([db EXCEPT !.subtasks[s].status = "in_progress",
                                  !.subtasks[s].started_at = t],
                       db.subtasks[s].task)
    ELSE db

\* mark_completed that writes before it looks at the assignment: only the
\* audit entry and the returned flag depend on it
mark_completed_write_first(db, s, u, t) ==
    LET d1 == [db EXCEPT !.subtasks[s].status = "completed",
                         !.subtasks[s].completed_at = t]
        d2 == update_status(d1, db.subtasks[s].task)
    IN  [db |-> d2, ok |-> Assigned(db, s, u)]

\* mark_completed gated by check_subtask_permission: managers and admins pass
\* without an assignment
mark_completed_role_bypass(db, s, u, t) ==
    IF can_create_tasks(u) \/ Assigned(db, s, u)
    THEN LET d1 == [db EXCEPT !.subtasks[s].status = "completed",
                              !.subtasks[s].completed_at = t]
         IN  [db |-> update_status(d1, db.subtasks[s].task), ok |-> TRUE]
    ELSE [db |-> db, ok |-> FALSE]

\* mark_completed that closes the parent task itself instead of calling
\* update_status
mark_completed_closes_task(db, s, u, t) ==
    IF Assigned(db, s, u)
    THEN LET d1 == [db EXCEPT !.subtasks[s].status = "completed",
                              !.subtasks[s].completed_at = t]
             d2 == [d1 EXCEPT !.tasks[db.subtasks[s].task].status = "completed"]
             row == d1.subtasks[s]
             entry == [task |-> row.task, user |-> u, action_type |-> "completed",
                       details |-> [subtask |-> row.name,
                                    started_at |-> isoformat(row.started_at),
                                    completed_at |-> isoformat(row.completed_at),
                                    duration_minutes |-> get_duration_minutes(row),
                                    duration_formatted |-> get_duration_formatted(row)]]
         IN  [db |-> [d2 EXCEPT !.actions = Append(@, entry)], ok |-> TRUE]
    ELSE [db |-> db, ok |-> FALSE]

\* mark_completed that builds the audit entry from the row as it was loaded,
\* before status and completed_at are written
mark_completed_log_stale_row(db, s, u, t) ==
    IF Assigned(db, s, u)
    THEN LET d1 == [db EXCEPT !.subtasks[s].status = "completed",
                              !.subtasks[s].completed_at = t]
             d2 == update_status(d1, db.subtasks[s].task)
             row == db.subtasks[s]
             entry == [task |-> row.task, user |-> u, action_type |-> "completed",
                       details |-> [subtask |-> row.name,
                                    started_at |-> isoformat(row.started_at),
                                    completed_at |-> isoformat(row.completed_at),
                                    duration_minutes |-> get_duration_minutes(row),
                                    duration_formatted |-> get_duration_formatted(row)]]
         IN  [db |-> [d2 EXCEPT !.actions = Append(@, entry)], ok |-> TRUE]
    ELSE [db |-> db, ok |-> FALSE]

\* Subtask.mark_completed: the new database and the returned flag
mark_completed(db, s, u, t) ==
    IF Assigned(db, s, u)
    THEN LET d1 == [db EXCEPT !.subtasks[s].status = "completed",
                              !.subtasks[s].completed_at = t]
             d2 == update_status(d1, db.subtasks[s].task)
             row == d1.subtasks[s]
             entry == [task |-> row.task, user |-> u, action_type |-> "completed",
                       details |-> [subtask |-> row.name,
                                    started_at |-> isoformat(row.started_at),
                                    completed_at |-> isoformat(row.completed_at),
                                    duration_minutes |-> get_duration_minutes(row),
                                    duration_formatted |-> get_duration_formatted(row)]]
         IN  [db |-> [d2 EXCEPT !.actions = Append(@, entry)], ok |-> TRUE]
    ELSE [db |-> db, ok |-> FALSE]

\* objects.create in place of get_or_create: a row is added every time
get_or_create_always(db, s, u) ==
    [db |-> [db EXCEPT !.assignments = @ (+) SetToBag({<<s, u>>})], created |-> TRUE]

\* SubtaskAssignment.objects.get_or_create(subtask=s, user=u)
get_or_create(db, s, u) ==
    IF Assigned(db, s, u)
    THEN [db |-> db, created |-> FALSE]
    ELSE [db |-> [db EXCEPT !.assignments = @ (+) SetToBag({<<s, u>>})], created |-> TRUE]

----------------------------------------------------------------------------
(* Claim and complete *)

\* TakeTaskForm with the queryset task.subtasks.all(): completed subtasks
\* are accepted too
TakeTaskFormValid_any_status(db, t, sel) ==
    /\ sel # {}
    /\ sel \subseteq SubtasksOf(db, t)

\* TakeTaskForm: the subtasks field accepts a non-empty selection of
\* not-completed subtasks of the task
TakeTaskFormValid(db, t, sel) ==
    /\ sel # {}
    /\ sel \subseteq {s \in SubtasksOf(db, t) : db.subtasks[s].status # "completed"}

RECURSIVE TakeLoop(_, _, _, _)
\* the loop of TakeTaskView.post over the selected subtasks
TakeLoop(db, sel, u, t) ==
    IF sel = <<>> THEN db
    ELSE LET s == Head(sel)
             r == get_or_create(db, s, u)
             d1 == IF r.created /\ db.subtasks[s].status = "pending"
                   THEN mark_in_progress(r.db, s, t)
                   ELSE r.db
         IN  TakeLoop(d1, Tail(sel), u, t)

\* TakeTaskView.post with the audit entry written inside the loop, one entry
\* per selected subtask
TakeTask_log_per_subtask(u, pk, sel) ==
    /\ UNCHANGED <<templates, items, links, now>>
    /\ IF pk \notin DOMAIN tasks
       THEN Refused
       ELSE IF ~TakeTaskFormValid(DB, pk, sel)
       THEN /\ Commit(DB)
            /\ message' = Message("error", "take_none_selected", "", u)
       ELSE \E selected \in OrderBy(sel, LAMBDA s : subtasks[s].order) :
              LET d1 == TakeLoop(DB, selected, u, now)
                  entries == [i \in 1..Len(selected) |->
                                [task |-> pk, user |-> u, action_type |-> "assigned",
                                 details |-> [subtasks |-> <<subtasks[selected[i]].name>>]]]
              IN  /\ Commit([d1 EXCEPT !.actions = @ \o entries])
                  /\ message' = Message("success", "taken", Len(selected), u)

\* TakeTaskView.post
TakeTask(u, pk, sel) ==
    /\ UNCHANGED <<templates, items, links, now>>
    /\ IF pk \notin DOMAIN tasks
       THEN Refused
       ELSE IF ~TakeTaskFormValid(DB, pk, sel)
       THEN /\ Commit(DB)
            /\ message' = Message("error", "take_none_selected", "", u)
       ELSE \E selected \in OrderBy(sel, LAMBDA s : subtasks[s].order) :
              LET d1 == TakeLoop(DB, selected, u, now)
                  entry == [task |-> pk, user |-> u, action_type |-> "assigned",
                            details |-> [subtasks |-> [i \in 1..Len(selected) |->
                                                          subtasks[selected[i]].name]]]
              IN  /\ Commit([d1 EXCEPT !.actions = Append(@, entry)])
                  /\ message' = Message("success", "taken", Len(selected), u)

\* CompleteSubtaskView.post
CompleteSubtask(u, pk) ==
    /\ UNCHANGED <<templates, items, links, now>>
    /\ IF pk \notin DOMAIN subtasks
       THEN Refused
       ELSE LET r == mark_completed(DB, pk, u, now)
            IN  /\ Commit(r.db)
                /\ message' = IF r.ok
                              THEN Message("success", "subtask_completed", subtasks[pk].name, u)
                              ELSE Message("error", "complete_denied", "", u)

----------------------------------------------------------------------------
(* Templates *)

\* the queryset of TaskCreateForm.template for the requesting user
TemplateQueryset(u) ==
    {tp \in DOMAIN templates :
        /\ templates[tp].is_active
        /\ (can_manage_templates(u) \/ templates[tp].available_for_managers)}

LinksOf(tp) == {l \in links : l.task_template = tp}

\* SubtaskTemplate.name
LinkName(l) == items[l.subtask_item].name

\* TaskTemplate.get_subtask_templates: the link rows ordered by 'order'
get_subtask_templates(tp) == OrderBy(LinksOf(tp), LAMBDA l : l.order)

----------------------------------------------------------------------------
(* Task creation *)

\* form.save() of TaskCreateForm: a new Task row with the default status
SaveTask(db, title, date, tp, u) ==
    [db EXCEPT !.tasks = @ @@ (db.nextTaskId :>
                                 [title |-> title, date |-> date, status |-> "available",
                                  template |-> tp, created_by |-> u]),
               !.nextTaskId = @ + 1]

\* Subtask.objects.create(task=t, name=..., order=...) for each element of specs
CreateSubtasks(db, t, specs) ==
    LET n == Len(specs)
        rows == [id \in db.nextSubtaskId..(db.nextSubtaskId + n - 1) |->
                    [task |-> t,
                     name |-> specs[id - db.nextSubtaskId + 1].name,
                     status |-> "pending",
                     order |-> specs[id - db.nextSubtaskId + 1].order,
                     started_at |-> None,
                     completed_at |-> None]]
    IN  [db EXCEPT !.subtasks = @ @@ rows, !.nextSubtaskId = @ + n]

\* the subtasks TaskCreateView.form_valid creates from POST subtask_ids[]:
\* order is the position in the posted list, unknown ids are skipped
PostedSubtasks(subtask_ids) ==
    LET all == [i \in 1..Len(subtask_ids) |-> [id |-> subtask_ids[i], order |-> i - 1]]
        found == SelectSeq(all, LAMBDA e : e.id \in DOMAIN items)
    IN  [k \in 1..Len(found) |-> [name |-> items[found[k].id].name, order |-> found[k].order]]

\* the subtasks ManagementTaskCreateView.form_valid creates from the
\* template's link rows, listed as get_subtask_templates returned them
TemplateSubtasks(ordered) ==
    [k \in 1..Len(ordered) |-> [name |-> LinkName(ordered[k]), order |-> ordered[k].order]]

\* the manual branch of ManagementTaskCreateView.form_valid: POST subtask_name[]
ManualSubtasks(subtask_names) ==
    LET all == [i \in 1..Len(subtask_names) |-> [name |-> subtask_names[i], order |-> i - 1]]
    IN  SelectSeq(all, LAMBDA e : e.name # "")

\* TaskCreateView.form_valid with the audit entry written inside the loop,
\* once per subtask created, instead of once after it
TaskCreateFormValid_log_per_subtask(db, u, title, date, tp, subtask_ids) ==
    LET t == db.nextTaskId
        d1 == SaveTask(db, title, date, tp, u)
        specs == PostedSubtasks(subtask_ids)
        d2 == CreateSubtasks(d1, t, specs)
        entry == [task |-> t, user |-> u, action_type |-> "created",
                  details |-> [template_name |-> IF tp # None THEN templates[tp].name ELSE "",
                               subtasks_count |-> Len(subtask_ids)]]
    IN  [d2 EXCEPT !.actions = @ \o [k \in 1..Len(specs) |-> entry]]

\* TaskCreateView.form_valid
TaskCreateFormValid(db, u, title, date, tp, subtask_ids) ==
    LET t == db.nextTaskId
        d1 == SaveTask(db, title, date, tp, u)
        d2 == CreateSubtasks(d1, t, PostedSubtasks(subtask_ids))
        entry == [task |-> t, user |-> u, action_type |-> "created",
                  details |-> [template_name |-> IF tp # None THEN templates[tp].name ELSE "",
                               subtasks_count |-> Len(subtask_ids)]]
    IN  [d2 EXCEPT !.actions = Append(@, entry)]

\* ManagementTaskCreateView.form_valid
ManagementFormValid(db, u, title, date, tp, ordered, subtask_names) ==
    LET t == db.nextTaskId
        d1 == SaveTask(db, title, date, tp, u)
    IN  IF tp # None
        THEN LET d2 == CreateSubtasks(d1, t, TemplateSubtasks(ordered))
                 entry == [task |-> t, user |-> u, action_type |-> "created",
                           details |-> [template_name |-> templates[tp].name,
                                        subtasks_count |-> Cardinality(LinksOf(tp))]]
             IN  [d2 EXCEPT !.actions = Append(@, entry)]
        ELSE LET d2 == CreateSubtasks(d1, t, ManualSubtasks(subtask_names))
                 entry == [task |-> t, user |-> u, action_type |-> "created",
                           details |-> [manual_creation |-> TRUE]]
             IN  [d2 EXCEPT !.actions = Append(@, entry)]

\* TaskCreateForm.is_valid: template is a required choice of the queryset
TaskCreateFormIsValid(u, tp) == tp # None /\ tp \in TemplateQueryset(u)

\* POST /task/create/ (TaskCreateView)
TaskCreate(u, title, date, tp, subtask_ids) ==
    /\ nextTaskId <= MaxTasks
    /\ nextSubtaskId + Len(PostedSubtasks(subtask_ids)) - 1 <= MaxSubtasks
    /\ UNCHANGED <<templates, items, links, now>>
    /\ IF ~ManagerRequired(u)
       THEN Refused
       ELSE IF ~TaskCreateFormIsValid(u, tp)
       THEN Refused
       ELSE /\ Commit(TaskCreateFormValid(DB, u, title, date, tp, subtask_ids))
            /\ message' = Message("success", "task_created", title, u)

\* POST /management/task/create/ (ManagementTaskCreateView)
ManagementTaskCreate(u, title, date, tp, subtask_names) ==
    /\ nextTaskId <= MaxTasks
    /\ UNCHANGED <<templates, items, links, now>>
    /\ IF ~ManagerOrAdmin(u)
       THEN Refused
       ELSE IF ~TaskCreateFormIsValid(u, tp)
       THEN Refused
       ELSE \E ordered \in get_subtask_templates(tp) :
              /\ nextSubtaskId + Len(ordered) - 1 <= MaxSubtasks
              /\ Commit(ManagementFormValid(DB, u, title, date, tp, ordered, subtask_names))
              /\ message' = Message("success", "task_created", title, u)

----------------------------------------------------------------------------
(* Task update and delete *)

str(v) == <<"str", v>>

\* TaskUpdateView.form_valid.  The form has already written the cleaned
\* values into self.object when form_valid runs (ModelForm._post_clean), so
\* the 'old' value the handler reads is the submitted one.
TaskUpdateFormValid(db, u, pk, title, date, status) ==
    LET old == db.tasks[pk]
        new == [title |-> title, date |-> date, status |-> status]
        changed_data == {f \in {"title", "date", "status"} : new[f] # old[f]}
        changes == [f \in changed_data |-> [old |-> str(new[f]), new |-> str(new[f])]]
        d1 == [db EXCEPT !.tasks[pk].title = title,
                         !.tasks[pk].date = date,
                         !.tasks[pk].status = status]
        entry == [task |-> pk, user |-> u, action_type |-> "updated",
                  details |-> [changes |-> changes]]
    IN  IF changed_data # {} THEN [d1 EXCEPT !.actions = Append(@, entry)] ELSE d1

\* POST /task/<pk>/edit/ (TaskUpdateView)
TaskUpdate(u, pk, title, date, status) ==
    /\ UNCHANGED <<templates, items, links, now>>
    /\ IF ~ManagerRequired(u)
       THEN Refused
       ELSE IF pk \notin DOMAIN tasks
       THEN Refused
       ELSE /\ Commit(TaskUpdateFormValid(DB, u, pk, title, date, status))
            /\ message' = Message("success", "task_updated", title, u)

\* Task.delete(): the rows that reference the task go with it (on_delete=CASCADE)
DeleteTask(db, pk) ==
    LET gone == SubtasksOf(db, pk)
        keptA == {a \in DOMAIN db.assignments : a[1] \notin gone}
    IN  [db EXCEPT !.tasks = [t \in DOMAIN db.tasks \ {pk} |-> db.tasks[t]],
                   !.subtasks = [s \in DOMAIN db.subtasks \ gone |-> db.subtasks[s]],
                   !.assignments = [a \in keptA |-> db.assignments[a]],
                   !.actions = SelectSeq(db.actions, LAMBDA e : e.task # pk)]

\* the first half of TaskDeleteView.delete: the 'deleted' entry is written
TaskDeleteViewLog(db, u, pk) ==
    LET entry == [task |-> pk, user |-> u, action_type |-> "deleted",
                  details |-> [title |-> db.tasks[pk].title, date |-> str(db.tasks[pk].date)]]
    IN  [db EXCEPT !.actions = Append(@, entry)]

\* TaskDeleteView.delete: the 'deleted' entry is written, then the task is deleted
TaskDeleteViewDelete(db, u, pk) == DeleteTask(TaskDeleteViewLog(db, u, pk), pk)

\* what DeleteView does with the object when the delete() override is not
\* on the path of the request: self.object.delete()
TaskDeleteViewFormValid(db, pk) == DeleteTask(db, pk)

\* /task/<pk>/delete/ (TaskDeleteView).  DeleteView routes a DELETE request
\* to delete(); a POST reaches delete() only in the Django versions whose
\* DeleteView.post calls it, in the others it goes to form_valid() and the
\* override (audit entry, message) is not run
TaskDelete(u, pk) ==
    /\ UNCHANGED <<templates, items, links, now>>
    /\ IF ~ManagerRequired(u)
       THEN Refused
       ELSE IF pk \notin DOMAIN tasks
       THEN Refused
       ELSE \/ /\ Commit(TaskDeleteViewDelete(DB, u, pk))
               /\ message' = Message("success", "task_deleted", tasks[pk].title, u)
            \/ /\ Commit(TaskDeleteViewFormValid(DB, pk))
               /\ UNCHANGED message

----------------------------------------------------------------------------
(* Subtask update and delete *)

\* the edit written as a fresh Subtask(pk, task, name, order): the columns
\* the request does not carry fall back to their defaults
SubtaskUpdateSave_fresh_row(db, pk, name, order) ==
    LET loaded == db.subtasks[pk]
    IN  [db EXCEPT !.subtasks[pk] =
            [task |-> loaded.task,
             name |-> IF name # "" THEN name ELSE loaded.name,
             status |-> "pending",
             order |-> IF order # <<>> THEN order[2] ELSE loaded.order,
             started_at |-> None,
             completed_at |-> None]]

\* the body of SubtaskUpdateView.post after the row is loaded: name is set
\* when non-empty, order when the parameter is present, then subtask.save()
\* writes every column of the loaded row
SubtaskUpdateSave(db, pk, name, order) ==
    LET loaded == db.subtasks[pk]
        r1 == IF name # "" THEN [loaded EXCEPT !.name = name] ELSE loaded
        r2 == IF order # <<>> THEN [r1 EXCEPT !.order = order[2]] ELSE r1
    IN  [db EXCEPT !.subtasks[pk] = r2]

\* POST /subtask/<pk>/update/ (SubtaskUpdateView.post); order is absent (<<>>),
\* an integer literal (<<"int", n>>) or not a number (<<"bad">>)
SubtaskUpdate(u, pk, name, order) ==
    /\ UNCHANGED <<templates, items, links, now>>
    /\ IF ~can_create_tasks(u)
       THEN Refused
       ELSE IF pk \notin DOMAIN subtasks
       THEN Refused
       ELSE IF order = <<"bad">>
       THEN Refused
       ELSE /\ Commit(SubtaskUpdateSave(DB, pk, name, order))
            /\ UNCHANGED message

\* Subtask.delete(): its assignments go with it (on_delete=CASCADE)
DeleteSubtask(db, pk) ==
    LET keptA == {a \in DOMAIN db.assignments : a[1] # pk}
    IN  [db EXCEPT !.subtasks = [s \in DOMAIN db.subtasks \ {pk} |-> db.subtasks[s]],
                   !.assignments = [a \in keptA |-> db.assignments[a]]]

\* SubtaskDeleteView.post without the status recomputation
SubtaskDeletePost_no_recompute(db, pk) == DeleteSubtask(db, pk)

\* the body of SubtaskDeleteView.post: delete the row, then task.update_status()
SubtaskDeletePost(db, pk) == update_status(DeleteSubtask(db, pk), db.subtasks[pk].task)

\* POST /subtask/<pk>/delete/ (SubtaskDeleteView)
SubtaskDelete(u, pk) ==
    /\ UNCHANGED <<templates, items, links, now>>
    /\ IF ~ManagerRequired(u)
       THEN Refused
       ELSE IF pk \notin DOMAIN subtasks
       THEN Refused
       ELSE /\ Commit(SubtaskDeletePost(DB, pk))
            /\ message' = Message("success", "subtask_deleted", subtasks[pk].name, u)

----------------------------------------------------------------------------
\* the clock advances between requests
Tick ==
    /\ \E t \in Instants : t > now /\ now' = t
    /\ UNCHANGED <<tasks, subtasks, assignments, actions, nextTaskId, nextSubtaskId,
                   templates, items, links, message>>
----------------------------------------------------------------------------
(* The requests the model issues *)

Titles == {"Morning"}

Dates == {10}

TaskStatuses == {"available", "in_progress", "completed"}

SubtaskStatuses == {"pending", "in_progress", "completed"}

TaskIds == 1..MaxTasks

SubtaskIds == 1..MaxSubtasks

ItemIds == 1..3


TemplateIds == 1..3

SeedTemplates ==
    (1 :> [name |-> "Opening", is_active |-> TRUE, available_for_managers |-> TRUE])
    @@ (2 :> [name |-> "Closing", is_active |-> TRUE, available_for_managers |-> FALSE])
    @@ (3 :> [name |-> "Retired", is_active |-> FALSE, available_for_managers |-> TRUE])

SeedItems ==
    (1 :> [name |-> "Unlock doors"])
    @@ (2 :> [name |-> "Turn on lights"])
    @@ (3 :> [name |-> "Count cash"])

\* an id that names no SubtaskTemplateItem
BogusItem == Cardinality(DOMAIN SeedItems) + 1

SeedLinks ==
    {[task_template |-> 1, subtask_item |-> 1, order |-> 0],
     [task_template |-> 1, subtask_item |-> 2, order |-> 1],
     [task_template |-> 2, subtask_item |-> 3, order |-> 2]}

\* what the task form posts as subtask_ids[]: the template's items as the
\* page loaded them, or a list the user edited
PostedIdLists == {<<1, 2>>, <<BogusItem, 3>>}

\* what the subtask edit posts as (name, order)
SubtaskEdits ==
    {[name |-> "Renamed", order |-> <<"int", 7>>],
     [name |-> "", order |-> <<>>],
     [name |-> "", order |-> <<"bad">>]}

ManualNameLists == {<<>>, <<"Sweep", "", "Mop">>}

InitDB ==
    /\ tasks = <<>>
    /\ subtasks = <<>>
    /\ assignments = EmptyBag
    /\ actions = <<>>
    /\ nextTaskId = 1
    /\ nextSubtaskId = 1
    /\ now = 0
    /\ message = Message("none", "none", "", "ann")
    /\ response = NoResponse
    /\ nextTemplateId = Cardinality(DOMAIN SeedTemplates) + 1
    /\ requests = [w \in Workers |-> Idle]

Init ==
    /\ InitDB
    /\ templates = SeedTemplates
    /\ items = SeedItems
    /\ links = SeedLinks

ReqTaskCreate ==
    \E u \in Users, title \in Titles, date \in Dates, tp \in TemplateIds \cup {None},
       ids \in PostedIdLists :
        TaskCreate(u, title, date, tp, ids)

ReqManagementTaskCreate ==
    \E u \in Users, title \in Titles, date \in Dates, tp \in TemplateIds \cup {None},
       names \in ManualNameLists :
        ManagementTaskCreate(u, title, date, tp, names)

ReqTaskUpdate ==
    \E u \in Users, pk \in TaskIds, title \in Titles, date \in Dates, st \in TaskStatuses :
        TaskUpdate(u, pk, title, date, st)

ReqTaskDelete == \E u \in Users, pk \in TaskIds : TaskDelete(u, pk)

ReqTakeTask == \E u \in Users, pk \in TaskIds, sel \in SUBSET SubtaskIds : TakeTask(u, pk, sel)

ReqCompleteSubtask == \E u \in Users, pk \in SubtaskIds : CompleteSubtask(u, pk)

ReqSubtaskUpdate ==
    \E u \in Users, pk \in SubtaskIds, edit \in SubtaskEdits :
        SubtaskUpdate(u, pk, edit.name, edit.order)

ReqSubtaskDelete == \E u \in Users, pk \in SubtaskIds : SubtaskDelete(u, pk)

\* the requests that append to the audit log need room in it
LogRoom(n) == Len(actions) < n

\* every request of the application, one at a time
Next ==
    \/ LogRoom(MaxActions) /\ ReqTaskCreate /\ UNCHANGED <<response, nextTemplateId, requests>>
    \/ LogRoom(MaxActions) /\ ReqManagementTaskCreate /\ UNCHANGED <<response, nextTemplateId, requests>>
    \/ LogRoom(MaxActions) /\ ReqTaskUpdate /\ UNCHANGED <<response, nextTemplateId, requests>>
    \/ ReqTaskDelete /\ UNCHANGED <<response, nextTemplateId, requests>>
    \/ LogRoom(MaxActions) /\ ReqTakeTask /\ UNCHANGED <<response, nextTemplateId, requests>>
    \/ LogRoom(MaxActions) /\ ReqCompleteSubtask /\ UNCHANGED <<response, nextTemplateId, requests>>
    \/ ReqSubtaskUpdate /\ UNCHANGED <<response, nextTemplateId, requests>>
    \/ ReqSubtaskDelete /\ UNCHANGED <<response, nextTemplateId, requests>>
    \/ Tick /\ UNCHANGED <<response, nextTemplateId, requests>>

Spec == Init /\ [][Next]_vars

\* the requests that create, claim, complete and delete: the subtask-mutating
\* requests, without the two edit forms
NextLifecycle ==
    \/ LogRoom(MaxLifecycleActions) /\ ReqTaskCreate /\ UNCHANGED <<response, nextTemplateId, requests>>
    \/ LogRoom(MaxLifecycleActions) /\ ReqManagementTaskCreate /\ UNCHANGED <<response, nextTemplateId, requests>>
    \/ LogRoom(MaxLifecycleActions) /\ ReqTakeTask /\ UNCHANGED <<response, nextTemplateId, requests>>
    \/ LogRoom(MaxLifecycleActions) /\ ReqCompleteSubtask /\ UNCHANGED <<response, nextTemplateId, requests>>
    \/ ReqSubtaskDelete /\ UNCHANGED <<response, nextTemplateId, requests>>
    \/ ReqTaskDelete /\ UNCHANGED <<response, nextTemplateId, requests>>
    \/ Tick /\ UNCHANGED <<response, nextTemplateId, requests>>

SpecLifecycle == Init /\ [][NextLifecycle]_vars

----------------------------------------------------------------------------
(* Task.update_status on its own: any stored status, any child statuses *)

\* a Subtask row of task t in the given status, with the timestamps the
\* lifecycle gives a row in that status
StatusRow(t, st) ==
    [task |-> t, name |-> "Unlock doors", status |-> st, order |-> 0,
     started_at |-> IF st = "pending" THEN None ELSE 0,
     completed_at |-> IF st = "completed" THEN 0 ELSE None]

InitUpdateStatus ==
    /\ \E sts \in [TaskIds -> TaskStatuses] :
          tasks = [t \in TaskIds |->
                     [title |-> "Morning", date |-> 10, status |-> sts[t],
                      template |-> None, created_by |-> "ann"]]
    /\ \E n \in 0..MaxSubtasks :
          \E owner \in [1..n -> TaskIds], st \in [1..n -> SubtaskStatuses] :
              subtasks = [s \in 1..n |-> StatusRow(owner[s], st[s])]
    /\ assignments = EmptyBag
    /\ actions = <<>>
    /\ nextTaskId = MaxTasks + 1
    /\ nextSubtaskId = MaxSubtasks + 1
    /\ templates = SeedTemplates
    /\ items = SeedItems
    /\ links = SeedLinks
    /\ now = 0
    /\ message = Message("none", "none", "", "ann")
    /\ response = NoResponse
    /\ nextTemplateId = Cardinality(DOMAIN SeedTemplates) + 1
    /\ requests = [w \in Workers |-> Idle]

\* task.update_status() is called on task t; message notes the call
UpdateStatusCall(t) ==
    /\ t \in DOMAIN tasks
    /\ Commit(update_status(DB, t))
    /\ message' = Message("call", "update_status", t, "ann")
    /\ UNCHANGED <<templates, items, links, now, response, nextTemplateId, requests>>

NextUpdateStatus == \E t \in TaskIds : UpdateStatusCall(t)

SpecUpdateStatus == InitUpdateStatus /\ [][NextUpdateStatus]_vars

----------------------------------------------------------------------------
(* Subtask.mark_in_progress on its own: any row, at any instant *)

\* subtask.mark_in_progress() is called on subtask s; message notes the call
MarkInProgressCall(s) ==
    /\ s \in DOMAIN subtasks
    /\ Commit(mark_in_progress(DB, s, now))
    /\ message' = Message("call", "mark_in_progress", s, "ann")
    /\ UNCHANGED <<templates, items, links, now, response, nextTemplateId, requests>>

NextMarkInProgress ==
    \/ \E s \in SubtaskIds : MarkInProgressCall(s)
    \/ LogRoom(MaxActions) /\ ReqTakeTask /\ UNCHANGED <<response, nextTemplateId, requests>>
    \/ Tick /\ UNCHANGED <<response, nextTemplateId, requests>>

SpecMarkInProgress == InitUpdateStatus /\ [][NextMarkInProgress]_vars

----------------------------------------------------------------------------
(* TaskDeleteView write by write *)

InFlight == response.status = "in_flight"

\* TaskDeleteView.delete up to and including messages.success: the audit
\* entry is in the table, the task is still there
DeleteLogged(u, pk) ==
    /\ ~InFlight
    /\ ManagerRequired(u)
    /\ pk \in DOMAIN tasks
    /\ Commit(TaskDeleteViewLog(DB, u, pk))
    /\ message' = Message("success", "task_deleted", tasks[pk].title, u)
    /\ response' = [view |-> "task_delete", user |-> u, status |-> "in_flight", pk |-> pk]
    /\ UNCHANGED <<templates, items, links, now, nextTemplateId, requests>>

\* super().delete(): the task and what hangs on it are deleted
DeleteRow ==
    /\ InFlight
    /\ Commit(DeleteTask(DB, response.pk))
    /\ response' = [view |-> "task_delete", user |-> response.user, status |-> "ok"]
    /\ UNCHANGED <<templates, items, links, now, nextTemplateId, message, requests>>

\* the request that does not pass through delete(): form_valid deletes
DeleteByFormValid(u, pk) ==
    /\ ~InFlight
    /\ ManagerRequired(u)
    /\ pk \in DOMAIN tasks
    /\ Commit(TaskDeleteViewFormValid(DB, pk))
    /\ response' = [view |-> "task_delete", user |-> u, status |-> "ok"]
    /\ UNCHANGED <<templates, items, links, now, nextTemplateId, message, requests>>

NextDelete ==
    \/ ~InFlight /\ LogRoom(MaxActions) /\ ReqTaskCreate /\ UNCHANGED <<response, nextTemplateId, requests>>
    \/ ~InFlight /\ LogRoom(MaxActions) /\ ReqTakeTask /\ UNCHANGED <<response, nextTemplateId, requests>>
    \/ LogRoom(MaxActions) /\ \E u \in Users, pk \in TaskIds : DeleteLogged(u, pk)
    \/ DeleteRow
    \/ \E u \in Users, pk \in TaskIds : DeleteByFormValid(u, pk)

SpecDelete == Init /\ [][NextDelete]_vars

----------------------------------------------------------------------------
(* The handlers statement by statement: requests served at the same time *)
(*                                                                         *)
(* A handler outside transaction.atomic() runs in autocommit: each query   *)
(* is one step and other workers' steps come in between.  The block inside *)
(* transaction.atomic() is one step, taken when it commits.                *)

\* what a step of a request leaves alone besides the database
InFlightFrame == UNCHANGED <<templates, items, links, now, response, nextTemplateId>>

Serve(w, r) == requests' = [requests EXCEPT ![w] = r]

\* a worker takes the next request while it has served fewer than the bound
Free(w) ==
    /\ requests[w].pc = "idle"
    /\ requests[w].served < MaxRequests

\* the response is sent: the worker is free again
Finish(w) == Serve(w, [pc |-> "idle", served |-> requests[w].served + 1])

\* an exception leaves the handler (DatabaseError, IntegrityError): a 500,
\* no message; what autocommit has written stays
Raise(w) ==
    /\ Finish(w)
    /\ UNCHANGED <<tasks, subtasks, assignments, actions, nextTaskId, nextSubtaskId, message>>

At(w, view, pc) ==
    /\ requests[w].pc = pc
    /\ requests[w].view = view

\* Task.update_status, the test subtasks.exists()
StatusExists(w) ==
    /\ requests[w].pc = "exists"
    /\ IF SubtasksOf(DB, requests[w].task) = {}
       THEN Serve(w, [requests[w] EXCEPT !.pc = "write", !.status = "available"])
       ELSE Serve(w, [requests[w] EXCEPT !.pc = "fetch"])
    /\ UNCHANGED <<tasks, subtasks, assignments, actions, nextTaskId, nextSubtaskId, message>>
    /\ InFlightFrame

\* the status update_status computes from the rows its iteration fetches
StatusOfRows(db, t) ==
    LET subs == SubtasksOf(db, t)
    IN  IF \A s \in subs : db.subtasks[s].status = "completed" THEN "completed"
        ELSE IF \E s \in subs : db.subtasks[s].status \in {"in_progress", "completed"}
             THEN "in_progress"
        ELSE "available"

\* Task.update_status, the iteration over self.subtasks.all()
StatusFetch(w) ==
    /\ requests[w].pc = "fetch"
    /\ Serve(w, [requests[w] EXCEPT !.pc = "write", !.status = StatusOfRows(DB, requests[w].task)])
    /\ UNCHANGED <<tasks, subtasks, assignments, actions, nextTaskId, nextSubtaskId, message>>
    /\ InFlightFrame

\* Task.update_status, self.save(update_fields=['status', 'updated_at']);
\* the subtask delete view ends with it
StatusWrite(w) ==
    /\ requests[w].pc = "write"
    /\ InFlightFrame
    /\ IF requests[w].task \notin DOMAIN tasks
       THEN Raise(w)
       ELSE /\ Commit([DB EXCEPT !.tasks[requests[w].task].status = requests[w].status])
            /\ IF requests[w].view = "subtask_delete"
               THEN /\ Finish(w)
                    /\ message' = Message("success", "subtask_deleted",
                                          requests[w].row.name, requests[w].user)
               ELSE /\ Serve(w, [requests[w] EXCEPT !.pc = "log"])
                    /\ UNCHANGED message

\* CompleteSubtaskView.post: get_object_or_404(Subtask, pk), subtask.task
CompleteGet(w, u, pk) ==
    /\ Free(w)
    /\ pk \in DOMAIN subtasks
    /\ Serve(w, [served |-> requests[w].served, pc |-> "check", view |-> "complete", user |-> u, pk |-> pk,
                 task |-> subtasks[pk].task, row |-> subtasks[pk], status |-> "none"])
    /\ UNCHANGED <<tasks, subtasks, assignments, actions, nextTaskId, nextSubtaskId, message>>
    /\ InFlightFrame

\* mark_completed: self.assignments.filter(user=user).exists()
CompleteCheck(w) ==
    /\ At(w, "complete", "check")
    /\ InFlightFrame
    /\ UNCHANGED <<tasks, subtasks, assignments, actions, nextTaskId, nextSubtaskId>>
    /\ IF Assigned(DB, requests[w].pk, requests[w].user)
       THEN /\ Serve(w, [requests[w] EXCEPT !.pc = "save"])
            /\ UNCHANGED message
       ELSE /\ Finish(w)
            /\ message' = Message("error", "complete_denied", "", requests[w].user)

\* mark_completed: self.save(update_fields=['status', 'completed_at'])
CompleteSave(w) ==
    /\ At(w, "complete", "save")
    /\ InFlightFrame
    /\ IF requests[w].pk \notin DOMAIN subtasks
       THEN Raise(w)
       ELSE /\ Commit([DB EXCEPT !.subtasks[requests[w].pk].status = "completed",
                                 !.subtasks[requests[w].pk].completed_at = now])
            /\ Serve(w, [requests[w] EXCEPT !.pc = "exists",
                                            !.row.status = "completed",
                                            !.row.completed_at = now])
            /\ UNCHANGED message

\* the 'completed' entry mark_completed builds from the instance it holds
CompletedEntry(row, u) ==
    [task |-> row.task, user |-> u, action_type |-> "completed",
     details |-> [subtask |-> row.name,
                  started_at |-> isoformat(row.started_at),
                  completed_at |-> isoformat(row.completed_at),
                  duration_minutes |-> get_duration_minutes(row),
                  duration_formatted |-> get_duration_formatted(row)]]

\* mark_completed without the TaskAction row
CompleteLog_no_entry(w) ==
    /\ At(w, "complete", "log")
    /\ InFlightFrame
    /\ IF requests[w].task \notin DOMAIN tasks
       THEN Raise(w)
       ELSE /\ Commit(DB)
            /\ Finish(w)
            /\ message' = Message("success", "subtask_completed",
                                  requests[w].row.name, requests[w].user)

\* mark_completed: TaskAction.objects.create, then the view's messages.success
CompleteLog(w) ==
    /\ At(w, "complete", "log")
    /\ InFlightFrame
    /\ IF requests[w].task \notin DOMAIN tasks
       THEN Raise(w)
       ELSE /\ Commit([DB EXCEPT !.actions =
                          Append(@, CompletedEntry(requests[w].row, requests[w].user))])
            /\ Finish(w)
            /\ message' = Message("success", "subtask_completed",
                                  requests[w].row.name, requests[w].user)

\* SubtaskDeleteView.post: get_object_or_404(Subtask, pk), subtask.task
SubtaskDeleteGet(w, u, pk) ==
    /\ Free(w)
    /\ ManagerRequired(u)
    /\ pk \in DOMAIN subtasks
    /\ Serve(w, [served |-> requests[w].served, pc |-> "delete", view |-> "subtask_delete", user |-> u, pk |-> pk,
                 task |-> subtasks[pk].task, row |-> subtasks[pk], status |-> "none"])
    /\ UNCHANGED <<tasks, subtasks, assignments, actions, nextTaskId, nextSubtaskId, message>>
    /\ InFlightFrame

\* subtask.delete(): the row and its assignments, whether or not the row is
\* still there
SubtaskDeleteRow(w) ==
    /\ At(w, "subtask_delete", "delete")
    /\ InFlightFrame
    /\ Commit(IF requests[w].pk \in DOMAIN subtasks THEN DeleteSubtask(DB, requests[w].pk) ELSE DB)
    /\ Serve(w, [requests[w] EXCEPT !.pc = "exists"])
    /\ UNCHANGED message

\* TakeTaskView.post up to form.is_valid(): the task is fetched, the form
\* checks the selection and keeps the rows it has read
TakeGet(w, u, pk, sel) ==
    /\ Free(w)
    /\ pk \in DOMAIN tasks
    /\ InFlightFrame
    /\ UNCHANGED <<tasks, subtasks, assignments, actions, nextTaskId, nextSubtaskId>>
    /\ IF ~TakeTaskFormValid(DB, pk, sel)
       THEN /\ Finish(w)
            /\ message' = Message("error", "take_none_selected", "", u)
       ELSE /\ \E selected \in OrderBy(sel, LAMBDA s : subtasks[s].order) :
                 Serve(w, [served |-> requests[w].served, pc |-> "atomic", view |-> "take", user |-> u, pk |-> pk,
                           task |-> pk, status |-> "none",
                           rows |-> [i \in 1..Len(selected) |->
                                       [pk |-> selected[i], row |-> subtasks[selected[i]]]]])
            /\ UNCHANGED message

RECURSIVE TakeLoopLoaded(_, _, _, _)
\* the loop of TakeTaskView.post over the rows the form has read: status is
\* the one read then, the queries see the rows as they are now
TakeLoopLoaded(db, rows, u, t) ==
    IF rows = <<>> THEN db
    ELSE LET s == Head(rows).pk
             r == get_or_create(db, s, u)
             d1 == IF r.created /\ Head(rows).row.status = "pending"
                   THEN update_status([r.db EXCEPT !.subtasks[s].status = "in_progress",
                                                   !.subtasks[s].started_at = t],
                                      db.subtasks[s].task)
                   ELSE r.db
         IN  TakeLoopLoaded(d1, Tail(rows), u, t)

\* the transaction.atomic() block of TakeTaskView.post, at its commit; a
\* selected row deleted in the meantime makes the INSERT or the UPDATE raise
\* and the block roll back
TakeCommit(w) ==
    /\ At(w, "take", "atomic")
    /\ InFlightFrame
    /\ LET rows == requests[w].rows
           u == requests[w].user
       IN  IF \E i \in 1..Len(rows) : rows[i].pk \notin DOMAIN subtasks
           THEN Raise(w)
           ELSE LET d1 == TakeLoopLoaded(DB, rows, u, now)
                    entry == [task |-> requests[w].task, user |-> u, action_type |-> "assigned",
                              details |-> [subtasks |-> [i \in 1..Len(rows) |-> rows[i].row.name]]]
                IN  /\ Commit([d1 EXCEPT !.actions = Append(@, entry)])
                    /\ Finish(w)
                    /\ message' = Message("success", "taken", Len(rows), u)

\* SubtaskUpdateView.post: the row is fetched and name and order are set on
\* the instance
SubtaskUpdateGet(w, u, pk, name, order) ==
    /\ Free(w)
    /\ can_create_tasks(u)
    /\ pk \in DOMAIN subtasks
    /\ order # <<"bad">>
    /\ Serve(w, [served |-> requests[w].served, pc |-> "save", view |-> "subtask_update", user |-> u, pk |-> pk,
                 task |-> subtasks[pk].task, status |-> "none",
                 row |-> [subtasks[pk] EXCEPT !.name = IF name # "" THEN name ELSE @,
                                              !.order = IF order # <<>> THEN order[2] ELSE @]])
    /\ UNCHANGED <<tasks, subtasks, assignments, actions, nextTaskId, nextSubtaskId, message>>
    /\ InFlightFrame

\* subtask.save(): every column of the instance is written; when the row is
\* gone the UPDATE matches nothing and save() inserts the instance, or the
\* insert fails on the deleted task
SubtaskUpdateWrite(w) ==
    /\ At(w, "subtask_update", "save")
    /\ InFlightFrame
    /\ IF requests[w].pk \in DOMAIN subtasks \/ requests[w].task \in DOMAIN tasks
       THEN /\ Commit([DB EXCEPT !.subtasks =
                          [s \in DOMAIN @ \cup {requests[w].pk} |->
                             IF s = requests[w].pk THEN requests[w].row ELSE @[s]]])
            /\ Finish(w)
            /\ UNCHANGED message
       ELSE Raise(w)

\* TaskDeleteView: the task is fetched; which method the framework's post()
\* goes through is the framework's choice
TaskDeleteGet(w, u, pk) ==
    /\ Free(w)
    /\ ManagerRequired(u)
    /\ pk \in DOMAIN tasks
    /\ \E path \in {"log", "row"} :
          Serve(w, [served |-> requests[w].served, pc |-> path, view |-> "task_delete", user |-> u, pk |-> pk,
                    task |-> pk, status |-> "none", row |-> tasks[pk]])
    /\ UNCHANGED <<tasks, subtasks, assignments, actions, nextTaskId, nextSubtaskId, message>>
    /\ InFlightFrame

\* TaskDeleteView.delete: TaskAction.objects.create and messages.success
TaskDeleteLog(w) ==
    /\ At(w, "task_delete", "log")
    /\ InFlightFrame
    /\ IF requests[w].pk \notin DOMAIN tasks
       THEN Raise(w)
       ELSE /\ Commit([DB EXCEPT !.actions = Append(@,
                          [task |-> requests[w].pk, user |-> requests[w].user,
                           action_type |-> "deleted",
                           details |-> [title |-> requests[w].row.title,
                                        date |-> str(requests[w].row.date)]])])
            /\ Serve(w, [requests[w] EXCEPT !.pc = "row"])
            /\ message' = Message("success", "task_deleted", requests[w].row.title,
                                  requests[w].user)

\* the object's delete(): the task and what cascades from it, whether or
\* not the row is still there
TaskDeleteRow(w) ==
    /\ At(w, "task_delete", "row")
    /\ InFlightFrame
    /\ Commit(IF requests[w].pk \in DOMAIN tasks THEN DeleteTask(DB, requests[w].pk) ELSE DB)
    /\ Finish(w)
    /\ UNCHANGED message

\* the request does not reach its end: the worker is killed or loses its
\* database connection between two statements
Fail(w) ==
    /\ requests[w].pc # "idle"
    /\ Raise(w)
    /\ InFlightFrame

\* the database after one task has been created from template 1 with its
\* two subtasks
SeedDB ==
    TaskCreateFormValid([tasks |-> <<>>, subtasks |-> <<>>, assignments |-> EmptyBag,
                         actions |-> <<>>, nextTaskId |-> 1, nextSubtaskId |-> 1],
                        "bob", "Morning", 10, 1, <<1, 2>>)

InitServed ==
    /\ templates = SeedTemplates
    /\ items = SeedItems
    /\ links = SeedLinks
    /\ tasks = SeedDB.tasks
    /\ subtasks = SeedDB.subtasks
    /\ assignments = SeedDB.assignments
    /\ actions = SeedDB.actions
    /\ nextTaskId = SeedDB.nextTaskId
    /\ nextSubtaskId = SeedDB.nextSubtaskId
    /\ now = 0
    /\ message = Message("none", "none", "", "ann")
    /\ response = NoResponse
    /\ nextTemplateId = Cardinality(DOMAIN SeedTemplates) + 1
    /\ requests = [w \in Workers |-> Idle]

\* the users whose requests are served side by side: a manager and an employee
Staff == {"bob", "eve"}

ServeTake ==
    \E w \in Workers, u \in Staff, pk \in TaskIds, sel \in SUBSET SubtaskIds :
        TakeGet(w, u, pk, sel)

ServeComplete == \E w \in Workers, u \in Staff, pk \in SubtaskIds : CompleteGet(w, u, pk)

ServeSubtaskDelete == \E w \in Workers, u \in Staff, pk \in SubtaskIds : SubtaskDeleteGet(w, u, pk)

ServeSubtaskUpdate ==
    \E w \in Workers, u \in Staff, pk \in SubtaskIds, edit \in SubtaskEdits :
        SubtaskUpdateGet(w, u, pk, edit.name, edit.order)

ServeTaskDelete == \E w \in Workers, u \in Staff, pk \in TaskIds : TaskDeleteGet(w, u, pk)

\* the steps inside Task.update_status
StatusSteps(w) == StatusExists(w) \/ StatusFetch(w) \/ StatusWrite(w)

ServedTick == Tick /\ UNCHANGED <<response, nextTemplateId, requests>>

\* claim, complete, create and the two deletes served side by side, with
\* requests that fail on the way
NextAtomicity ==
    \/ ServeTake
    \/ \E w \in Workers : TakeCommit(w)
    \/ ServeComplete
    \/ \E w \in Workers : CompleteCheck(w)
    \/ \E w \in Workers : CompleteSave(w)
    \/ \E w \in Workers : CompleteLog(w)
    \/ \E w \in Workers : StatusSteps(w)
    \/ ServeSubtaskDelete
    \/ \E w \in Workers : SubtaskDeleteRow(w)
    \/ ServeTaskDelete
    \/ \E w \in Workers : TaskDeleteLog(w)
    \/ \E w \in Workers : TaskDeleteRow(w)
    \/ \E w \in Workers : Fail(w)
    \/ ServedTick

SpecAtomicity == InitServed /\ [][NextAtomicity]_vars

\* claim, complete and subtask-delete requests served side by side, each
\* running to its end
NextRace ==
    \/ ServeTake
    \/ \E w \in Workers : TakeCommit(w)
    \/ ServeComplete
    \/ \E w \in Workers : CompleteCheck(w)
    \/ \E w \in Workers : CompleteSave(w)
    \/ \E w \in Workers : CompleteLog(w)
    \/ \E w \in Workers : StatusSteps(w)
    \/ ServeSubtaskDelete
    \/ \E w \in Workers : SubtaskDeleteRow(w)
    \/ ServedTick

SpecRace == InitServed /\ [][NextRace]_vars

\* the atomic block of TakeTaskView.post as a function of the database
Claim(db, u, selected, t) ==
    LET d1 == TakeLoop(db, selected, u, t)
        entry == [task |-> db.subtasks[selected[1]].task, user |-> u,
                  action_type |-> "assigned",
                  details |-> [subtasks |-> [i \in 1..Len(selected) |->
                                                db.subtasks[selected[i]].name]]]
    IN  [d1 EXCEPT !.actions = Append(@, entry)]

\* the user whose request a worker serves when the two of them complete
Completer(w) == IF w = 1 THEN "eve" ELSE "bob"

\* both users have claimed subtask 1, alone or with subtask 2
InitTwoCompletes ==
    /\ templates = SeedTemplates
    /\ items = SeedItems
    /\ links = SeedLinks
    /\ \E sel1, sel2 \in {<<1>>, <<1, 2>>} :
          LET db == Claim(Claim(SeedDB, Completer(1), sel1, 0), Completer(2), sel2, 0)
          IN  /\ tasks = db.tasks
              /\ subtasks = db.subtasks
              /\ assignments = db.assignments
              /\ actions = db.actions
              /\ nextTaskId = db.nextTaskId
              /\ nextSubtaskId = db.nextSubtaskId
    /\ now = 0
    /\ message = Message("none", "none", "", "ann")
    /\ response = NoResponse
    /\ nextTemplateId = Cardinality(DOMAIN SeedTemplates) + 1
    /\ requests = [w \in Workers |-> Idle]

\* each of the two users posts one complete request for subtask 1
NextTwoCompletes ==
    \/ \E w \in Workers : requests[w].served = 0 /\ CompleteGet(w, Completer(w), 1)
    \/ \E w \in Workers : CompleteCheck(w)
    \/ \E w \in Workers : CompleteSave(w)
    \/ \E w \in Workers : StatusSteps(w)
    \/ \E w \in Workers : CompleteLog(w)
    \/ ServedTick

SpecTwoCompletes == InitTwoCompletes /\ [][NextTwoCompletes]_vars

----------------------------------------------------------------------------
(* The dashboard in mode=all *)

SecondsPerDay == 86400

\* datetime.now().date(), as a day number
Today == now \div SecondsPerDay

Min(S) == CHOOSE x \in S : \A y \in S : x <= y

Max(S) == CHOOSE x \in S : \A y \in S : x >= y

\* DashboardView.get_queryset with mode=all and no lower limit on the date
get_queryset_unfiltered(today) == DOMAIN tasks

\* DashboardView.get_queryset, mode=all: the tasks dated today-3 or later
get_queryset(today) == {t \in DOMAIN tasks : tasks[t].date >= today - 3}

\* the tasks of one date in the order of the queryset, newest first (pks
\* grow with created_at)
TasksOn(qs, d) ==
    CHOOSE q \in OrderBy({t \in qs : tasks[t].date = d}, LAMBDA t : 0 - t) : TRUE

\* DashboardView.get_grouped_tasks
get_grouped_tasks(today) ==
    LET start_date == today - 3
        all_tasks == get_queryset(today)
        task_dates == {tasks[t].date : t \in all_tasks}
    IN  IF task_dates = {} THEN <<>>
        ELSE LET min_date == Max({start_date, Min(task_dates)})
                 max_date == Max(task_dates)
             IN  [i \in 1..(max_date - min_date + 1) |->
                    LET current_date == min_date + i - 1
                    IN  [date |-> current_date,
                         is_today |-> current_date = today,
                         tasks |-> TasksOn(all_tasks, current_date),
                         has_tasks |-> current_date \in task_dates]]

\* GET /?mode=all by a logged-in user; the response carries the groups
Dashboard(u) ==
    /\ response' = [view |-> "dashboard", user |-> u, status |-> "ok",
                    groups |-> get_grouped_tasks(Today)]
    /\ UNCHANGED <<tasks, subtasks, assignments, actions, nextTaskId, nextSubtaskId,
                   templates, items, links, now, message, nextTemplateId, requests>>

\* the days tasks are dated on, and the days the dashboard is opened on
DashboardDays == 0..MaxDay

Todays == {MaxDay - 3, MaxDay - 2}

\* any tasks on those days
InitDashboard ==
    /\ \E n \in 0..MaxDashboardTasks : \E d \in [1..n -> DashboardDays] :
          tasks = [t \in 1..n |-> [title |-> "Morning", date |-> d[t], status |-> "available",
                                   template |-> None, created_by |-> "bob"]]
    /\ nextTaskId = Len(tasks) + 1
    /\ \E today \in Todays : now = today * SecondsPerDay
    /\ subtasks = <<>>
    /\ assignments = EmptyBag
    /\ actions = <<>>
    /\ nextSubtaskId = 1
    /\ templates = SeedTemplates
    /\ items = SeedItems
    /\ links = SeedLinks
    /\ message = Message("none", "none", "", "ann")
    /\ response = NoResponse
    /\ nextTemplateId = Cardinality(DOMAIN SeedTemplates) + 1
    /\ requests = [w \in Workers |-> Idle]

NextDashboard == \E u \in Users : Dashboard(u)

SpecDashboard == InitDashboard /\ [][NextDashboard]_vars

\* claim, complete and subtask rename/reorder requests served side by side
NextRegress ==
    \/ ServeTake
    \/ \E w \in Workers : TakeCommit(w)
    \/ ServeComplete
    \/ \E w \in Workers : CompleteCheck(w)
    \/ \E w \in Workers : CompleteSave(w)
    \/ \E w \in Workers : CompleteLog(w)
    \/ \E w \in Workers : StatusSteps(w)
    \/ ServeSubtaskUpdate
    \/ \E w \in Workers : SubtaskUpdateWrite(w)
    \/ ServedTick

SpecRegress == InitServed /\ [][NextRegress]_vars

----------------------------------------------------------------------------
(* Subtask.get_duration_minutes and get_duration_formatted on their own *)

\* instants for the two timestamps, in seconds: half a minute, a minute, an
\* hour and more apart, in either order
Stamps == {0, 30, 59, 60, 90, 3599, 3600, 3690, 7325}

\* the template evaluates both methods on subtask s
DurationCall(s) ==
    /\ s \in DOMAIN subtasks
    /\ response' = [view |-> "duration", user |-> "none", status |-> "ok", pk |-> s,
                    minutes |-> get_duration_minutes(subtasks[s]),
                    formatted |-> get_duration_formatted(subtasks[s])]
    /\ UNCHANGED <<tasks, subtasks, assignments, actions, nextTaskId, nextSubtaskId,
                   templates, items, links, now, message, nextTemplateId, requests>>

\* one subtask with any two timestamps
InitDuration ==
    /\ tasks = <<[title |-> "Morning", date |-> 10, status |-> "in_progress",
                  template |-> None, created_by |-> "bob"]>>
    /\ \E st \in SubtaskStatuses, started \in Stamps \cup {None}, completed \in Stamps \cup {None} :
          subtasks = <<[task |-> 1, name |-> "Unlock doors", status |-> st, order |-> 0,
                        started_at |-> started, completed_at |-> completed]>>
    /\ assignments = EmptyBag
    /\ actions = <<>>
    /\ nextTaskId = 2
    /\ nextSubtaskId = 2
    /\ templates = SeedTemplates
    /\ items = SeedItems
    /\ links = SeedLinks
    /\ now = 0
    /\ message = Message("none", "none", "", "ann")
    /\ response = NoResponse
    /\ nextTemplateId = Cardinality(DOMAIN SeedTemplates) + 1
    /\ requests = [w \in Workers |-> Idle]

NextDuration == \E s \in SubtaskIds : DurationCall(s)

SpecDuration == InitDuration /\ [][NextDuration]_vars

----------------------------------------------------------------------------
(* The requests with their HTTP outcome *)

\* a client without a session
Anonymous == "anonymous"

Clients == Users \cup {Anonymous}

\* request.user.is_authenticated
is_authenticated(c) == c \in Users

\* the outcome of each view: "login" and "forbidden" from the access mixins,
\* "not_found" from get_object_or_404, "bad_request" from the 400 reply,
\* "invalid" when the form does not validate, "ok" otherwise
TaskCreateStatus(u, tp) ==
    IF ~ManagerRequired(u) THEN "forbidden"
    ELSE IF ~TaskCreateFormIsValid(u, tp) THEN "invalid" ELSE "ok"

ManagementTaskCreateStatus(u, tp) ==
    IF ~ManagerOrAdmin(u) THEN "forbidden"
    ELSE IF ~TaskCreateFormIsValid(u, tp) THEN "invalid" ELSE "ok"

TaskUpdateStatus(u, pk) ==
    IF ~ManagerRequired(u) THEN "forbidden"
    ELSE IF pk \notin DOMAIN tasks THEN "not_found" ELSE "ok"

TaskDeleteStatus(u, pk) ==
    IF ~ManagerRequired(u) THEN "forbidden"
    ELSE IF pk \notin DOMAIN tasks THEN "not_found" ELSE "ok"

TakeTaskStatus(u, pk, sel) ==
    IF pk \notin DOMAIN tasks THEN "not_found"
    ELSE IF ~TakeTaskFormValid(DB, pk, sel) THEN "invalid" ELSE "ok"

CompleteSubtaskStatus(u, pk) ==
    IF pk \notin DOMAIN subtasks THEN "not_found" ELSE "ok"

SubtaskUpdateStatus(u, pk, order) ==
    IF ~can_create_tasks(u) THEN "forbidden"
    ELSE IF pk \notin DOMAIN subtasks THEN "not_found"
    ELSE IF order = <<"bad">> THEN "bad_request" ELSE "ok"

SubtaskDeleteStatus(u, pk) ==
    IF ~ManagerRequired(u) THEN "forbidden"
    ELSE IF pk \notin DOMAIN subtasks THEN "not_found" ELSE "ok"

\* LoginRequiredMixin.dispatch: a client without a session never reaches the
\* handler; otherwise the handler runs and its outcome is the reply
Exchange(view, c, handler, status) ==
    IF ~is_authenticated(c)
    THEN /\ Refused
         /\ UNCHANGED <<templates, items, links, now, nextTemplateId, requests>>
         /\ response' = [view |-> view, user |-> c, status |-> "login"]
    ELSE /\ handler
         /\ response' = [view |-> view, user |-> c, status |-> status]

HttpTaskCreate(c, title, date, tp, ids) ==
    Exchange("task_create", c, TaskCreate(c, title, date, tp, ids), TaskCreateStatus(c, tp))

HttpManagementTaskCreate(c, title, date, tp, names) ==
    Exchange("management_task_create", c, ManagementTaskCreate(c, title, date, tp, names),
             ManagementTaskCreateStatus(c, tp))

HttpTaskUpdate(c, pk, title, date, st) ==
    Exchange("task_update", c, TaskUpdate(c, pk, title, date, st), TaskUpdateStatus(c, pk))

HttpTaskDelete(c, pk) ==
    Exchange("task_delete", c, TaskDelete(c, pk), TaskDeleteStatus(c, pk))

HttpTakeTask(c, pk, sel) ==
    Exchange("take_task", c, TakeTask(c, pk, sel), TakeTaskStatus(c, pk, sel))

HttpCompleteSubtask(c, pk) ==
    Exchange("complete_subtask", c, CompleteSubtask(c, pk), CompleteSubtaskStatus(c, pk))

HttpSubtaskUpdate(c, pk, name, order) ==
    Exchange("subtask_update", c, SubtaskUpdate(c, pk, name, order),
             SubtaskUpdateStatus(c, pk, order))

HttpSubtaskDelete(c, pk) ==
    Exchange("subtask_delete", c, SubtaskDelete(c, pk), SubtaskDeleteStatus(c, pk))

ReqHttpTaskCreate ==
    \E c \in Clients, title \in Titles, date \in Dates, tp \in TemplateIds \cup {None},
       ids \in PostedIdLists :
        HttpTaskCreate(c, title, date, tp, ids)

ReqHttpManagementTaskCreate ==
    \E c \in Clients, title \in Titles, date \in Dates, tp \in TemplateIds \cup {None},
       names \in ManualNameLists :
        HttpManagementTaskCreate(c, title, date, tp, names)

ReqHttpTaskUpdate ==
    \E c \in Clients, pk \in TaskIds, title \in Titles, date \in Dates, st \in TaskStatuses :
        HttpTaskUpdate(c, pk, title, date, st)

ReqHttpTaskDelete == \E c \in Clients, pk \in TaskIds : HttpTaskDelete(c, pk)

ReqHttpTakeTask ==
    \E c \in Clients, pk \in TaskIds, sel \in SUBSET SubtaskIds : HttpTakeTask(c, pk, sel)

ReqHttpCompleteSubtask == \E c \in Clients, pk \in SubtaskIds : HttpCompleteSubtask(c, pk)

ReqHttpSubtaskUpdate ==
    \E c \in Clients, pk \in SubtaskIds, edit \in SubtaskEdits :
        HttpSubtaskUpdate(c, pk, edit.name, edit.order)

ReqHttpSubtaskDelete == \E c \in Clients, pk \in SubtaskIds : HttpSubtaskDelete(c, pk)

\* every request of the application with its reply recorded
NextAccess ==
    \/ LogRoom(MaxAccessActions) /\ ReqHttpTaskCreate /\ UNCHANGED <<nextTemplateId, requests>>
    \/ LogRoom(MaxAccessActions) /\ ReqHttpManagementTaskCreate /\ UNCHANGED <<nextTemplateId, requests>>
    \/ LogRoom(MaxAccessActions) /\ ReqHttpTaskUpdate /\ UNCHANGED <<nextTemplateId, requests>>
    \/ ReqHttpTaskDelete /\ UNCHANGED <<nextTemplateId, requests>>
    \/ LogRoom(MaxAccessActions) /\ ReqHttpTakeTask /\ UNCHANGED <<nextTemplateId, requests>>
    \/ LogRoom(MaxAccessActions) /\ ReqHttpCompleteSubtask /\ UNCHANGED <<nextTemplateId, requests>>
    \/ ReqHttpSubtaskUpdate /\ UNCHANGED <<nextTemplateId, requests>>
    \/ ReqHttpSubtaskDelete /\ UNCHANGED <<nextTemplateId, requests>>

SpecAccess == Init /\ [][NextAccess]_vars

----------------------------------------------------------------------------
(* Template management: /api/templates/... and /management/template/... *)

\* AdminRequiredMixin.test_func (temp/views.py)
AdminRequired(u) == can_manage_templates(u)

\* what the template forms post, and the subtask_name[] list of the
\* management form
TemplateEdits == {[name |-> "Night", is_active |-> TRUE, available_for_managers |-> FALSE]}

TemplateSubtaskNames == {<<>>, <<"", "Sweep">>}

\* the rows the template requests leave alone
TemplateFrame ==
    UNCHANGED <<subtasks, assignments, actions, nextTaskId, nextSubtaskId, items, now, requests>>

TemplateRefused == UNCHANGED <<tasks, templates, links, nextTemplateId, message>>

\* TaskTemplate.delete(): the link rows go with it (CASCADE), the tasks made
\* from it lose the reference (SET_NULL)
DeleteTemplate(pk) ==
    /\ templates' = [tp \in DOMAIN templates \ {pk} |-> templates[tp]]
    /\ links' = {l \in links : l.task_template # pk}
    /\ tasks' = [t \in DOMAIN tasks |->
                   IF tasks[t].template = pk THEN [tasks[t] EXCEPT !.template = None]
                   ELSE tasks[t]]
    /\ UNCHANGED nextTemplateId

\* the loop over subtask_name[] reaches SubtaskTemplate.objects.create(name=...):
\* name is a read-only property of SubtaskTemplate, the call raises
CreateRaises(names) == \E i \in 1..Len(names) : names[i] # ""

\* ManagementTemplateCreateView.form_valid.  When the loop raises, the
\* template saved before it stays or is rolled back with the request,
\* depending on the ATOMIC_REQUESTS setting of the deployment
ManagementTemplateCreate(u, edit, names) ==
    /\ TemplateFrame
    /\ nextTemplateId <= MaxTemplates
    /\ IF ~ManagerOrAdmin(u)
       THEN TemplateRefused
       ELSE IF CreateRaises(names)
       THEN \/ TemplateRefused
            \/ /\ templates' = templates @@ (nextTemplateId :> edit)
               /\ nextTemplateId' = nextTemplateId + 1
               /\ UNCHANGED <<tasks, links, message>>
       ELSE /\ templates' = templates @@ (nextTemplateId :> edit)
            /\ nextTemplateId' = nextTemplateId + 1
            /\ message' = Message("success", "template_created", edit.name, u)
            /\ UNCHANGED <<tasks, links>>

ManagementTemplateCreateStatus(u, names) ==
    IF ~ManagerOrAdmin(u) THEN "forbidden"
    ELSE IF CreateRaises(names) THEN "error" ELSE "ok"

\* ManagementTemplateUpdateView.form_valid: the fields are saved, the old
\* link rows deleted, then the same loop
ManagementTemplateUpdate(u, pk, edit, names) ==
    /\ TemplateFrame
    /\ IF ~ManagerOrAdmin(u) \/ pk \notin DOMAIN templates
       THEN TemplateRefused
       ELSE IF CreateRaises(names)
       THEN \/ TemplateRefused
            \/ /\ templates' = [templates EXCEPT ![pk] = edit]
               /\ links' = {l \in links : l.task_template # pk}
               /\ UNCHANGED <<tasks, nextTemplateId, message>>
       ELSE /\ templates' = [templates EXCEPT ![pk] = edit]
            /\ links' = {l \in links : l.task_template # pk}
            /\ message' = Message("success", "template_updated", edit.name, u)
            /\ UNCHANGED <<tasks, nextTemplateId>>

ManagementTemplateUpdateStatus(u, pk, names) ==
    IF ~ManagerOrAdmin(u) THEN "forbidden"
    ELSE IF pk \notin DOMAIN templates THEN "not_found"
    ELSE IF CreateRaises(names) THEN "error" ELSE "ok"

\* ManagementTemplateDeleteView: the row is deleted; the message of the
\* delete() override is queued only by the Django versions whose
\* DeleteView.post still calls delete()
ManagementTemplateDelete(u, pk) ==
    /\ TemplateFrame
    /\ IF ~ManagerOrAdmin(u) \/ pk \notin DOMAIN templates
       THEN TemplateRefused
       ELSE /\ DeleteTemplate(pk)
            /\ \/ message' = Message("success", "template_deleted", templates[pk].name, u)
               \/ UNCHANGED message

ManagementTemplateDeleteStatus(u, pk) ==
    IF ~ManagerOrAdmin(u) THEN "forbidden"
    ELSE IF pk \notin DOMAIN templates THEN "not_found" ELSE "ok"

\* TaskTemplateCreateView (fields name, description, available_for_managers;
\* is_active takes its default)
TaskTemplateCreate(u, edit) ==
    /\ TemplateFrame
    /\ nextTemplateId <= MaxTemplates
    /\ IF ~AdminRequired(u)
       THEN TemplateRefused
       ELSE /\ templates' = templates @@ (nextTemplateId :> [edit EXCEPT !.is_active = TRUE])
            /\ nextTemplateId' = nextTemplateId + 1
            /\ UNCHANGED <<tasks, links, message>>

\* TaskTemplateUpdateView
TaskTemplateUpdate(u, pk, edit) ==
    /\ TemplateFrame
    /\ IF ~AdminRequired(u) \/ pk \notin DOMAIN templates
       THEN TemplateRefused
       ELSE /\ templates' = [templates EXCEPT ![pk] = edit]
            /\ UNCHANGED <<tasks, links, nextTemplateId, message>>

\* TaskTemplateDeleteView
TaskTemplateDelete(u, pk) ==
    /\ TemplateFrame
    /\ IF ~AdminRequired(u) \/ pk \notin DOMAIN templates
       THEN TemplateRefused
       ELSE DeleteTemplate(pk) /\ UNCHANGED message

TaskTemplateStatus(u, pk) ==
    IF ~AdminRequired(u) THEN "forbidden"
    ELSE IF pk \notin DOMAIN templates THEN "not_found" ELSE "ok"

\* the views that write template data
TemplateViews ==
    {"management_template_create", "management_template_edit", "management_template_delete",
     "api_template_create", "api_template_edit", "api_template_delete"}

\* a refused template request: the anonymous client is turned away before
\* any template handler runs
TemplateExchange(view, c, handler, status) ==
    IF ~is_authenticated(c)
    THEN /\ TemplateFrame
         /\ TemplateRefused
         /\ response' = [view |-> view, user |-> c, status |-> "login"]
    ELSE /\ handler
         /\ response' = [view |-> view, user |-> c, status |-> status]

ReqManagementTemplateCreate ==
    \E c \in Clients, edit \in TemplateEdits, names \in TemplateSubtaskNames :
        TemplateExchange("management_template_create", c,
                         ManagementTemplateCreate(c, edit, names),
                         ManagementTemplateCreateStatus(c, names))

ReqManagementTemplateUpdate ==
    \E c \in Clients, pk \in 1..MaxTemplates, edit \in TemplateEdits,
       names \in TemplateSubtaskNames :
        TemplateExchange("management_template_edit", c,
                         ManagementTemplateUpdate(c, pk, edit, names),
                         ManagementTemplateUpdateStatus(c, pk, names))

ReqManagementTemplateDelete ==
    \E c \in Clients, pk \in 1..MaxTemplates :
        TemplateExchange("management_template_delete", c,
                         ManagementTemplateDelete(c, pk),
                         ManagementTemplateDeleteStatus(c, pk))

ReqTaskTemplateCreate ==
    \E c \in Clients, edit \in TemplateEdits :
        TemplateExchange("api_template_create", c, TaskTemplateCreate(c, edit),
                         IF AdminRequired(c) THEN "ok" ELSE "forbidden")

ReqTaskTemplateUpdate ==
    \E c \in Clients, pk \in 1..MaxTemplates, edit \in TemplateEdits :
        TemplateExchange("api_template_edit", c, TaskTemplateUpdate(c, pk, edit),
                         TaskTemplateStatus(c, pk))

ReqTaskTemplateDelete ==
    \E c \in Clients, pk \in 1..MaxTemplates :
        TemplateExchange("api_template_delete", c, TaskTemplateDelete(c, pk),
                         TaskTemplateStatus(c, pk))

\* the template requests, and task creation from the templates they leave
NextTemplates ==
    \/ ReqManagementTemplateCreate
    \/ ReqManagementTemplateUpdate
    \/ ReqManagementTemplateDelete
    \/ ReqTaskTemplateCreate
    \/ ReqTaskTemplateUpdate
    \/ ReqTaskTemplateDelete
    \/ LogRoom(MaxTemplateActions) /\ ReqHttpManagementTaskCreate /\ UNCHANGED <<nextTemplateId, requests>>

SpecTemplates == Init /\ [][NextTemplates]_vars

----------------------------------------------------------------------------
(* Derived task status *)

\* the status rule of the specification, from the number of children and how
\* many of them are in_progress and completed
StatusFromCounts(total, started, completed) ==
    IF total = 0 THEN "available"
    ELSE IF completed = total THEN "completed"
    ELSE IF started + completed > 0 THEN "in_progress"
    ELSE "available"

\* that rule applied to the children task t has in the rows subs
DerivedStatus(subs, t) ==
    LET mine == {s \in DOMAIN subs : subs[s].task = t}
    IN  StatusFromCounts(Cardinality(mine),
                         Cardinality({s \in mine : subs[s].status = "in_progress"}),
                         Cardinality({s \in mine : subs[s].status = "completed"}))

\* C1: after any series of create, claim, complete and subtask-delete requests
\* every Task's stored status is the one derived from its current Subtasks
C1_StatusIsDerived == \A t \in DOMAIN tasks : tasks[t].status = DerivedStatus(subtasks, t)

\* C1 witness: a subtask was deleted and the task it left behind is completed
C1_Witness ==
    /\ message.text = "subtask_deleted"
    /\ \E t \in DOMAIN tasks :
          /\ tasks[t].status = "completed"
          /\ \E s \in DOMAIN subtasks : subtasks[s].task = t

\* C2: a call of Task.update_status stores exactly the reference status of the
\* task's child statuses and changes no Subtask row (nor another Task)
C2_UpdateStatusIsReference ==
    [][\A t \in TaskIds :
          UpdateStatusCall(t) =>
              /\ tasks'[t].status = DerivedStatus(subtasks, t)
              /\ subtasks' = subtasks
              /\ \A o \in DOMAIN tasks \ {t} : tasks'[o] = tasks[o]
              /\ DOMAIN tasks' = DOMAIN tasks]_vars

\* C2 witness: update_status ran on a task whose children are partly completed
\* and partly pending, and stored in_progress
C2_Witness ==
    /\ message.text = "update_status"
    /\ tasks[message.arg].status = "in_progress"
    /\ \E s1, s2 \in DOMAIN subtasks :
          /\ subtasks[s1].task = message.arg /\ subtasks[s1].status = "completed"
          /\ subtasks[s2].task = message.arg /\ subtasks[s2].status = "pending"

----------------------------------------------------------------------------
(* Completion is gated by assignment *)

\* C3: a complete request by a user without an assignment on the subtask
\* fails (mark_completed returns False, the error message is queued) and
\* leaves the subtask, the tasks and the audit log as they were
C3_UnassignedCompleteFails ==
    [][\A u \in Users, pk \in SubtaskIds :
          (/\ pk \in DOMAIN subtasks
           /\ ~Assigned(DB, pk, u)
           /\ CompleteSubtask(u, pk))
          => /\ ~mark_completed(DB, pk, u, now).ok
             /\ message' = Message("error", "complete_denied", "", u)
             /\ subtasks' = subtasks
             /\ tasks' = tasks
             /\ actions' = actions]_vars

\* C3 witness: a completion was denied while a started subtask is open
C3_Witness ==
    /\ message.text = "complete_denied"
    /\ \E s \in DOMAIN subtasks :
          /\ subtasks[s].status = "in_progress"
          /\ ~Assigned(DB, s, message.user)

----------------------------------------------------------------------------
(* Claiming is idempotent *)

AssignmentRowsOf(bag, s) == [u \in Users |-> CopiesIn(<<s, u>>, bag)]

\* the subtask's assignment rows, status and started_at are the same before
\* and after the step
ClaimKept(s) ==
    /\ s \in DOMAIN subtasks'
    /\ AssignmentRowsOf(assignments', s) = AssignmentRowsOf(assignments, s)
    /\ subtasks'[s].status = subtasks[s].status
    /\ subtasks'[s].started_at = subtasks[s].started_at

\* C5: no (subtask, user) pair ever has two assignment rows, and a claim by
\* a user who already holds the subtask leaves that subtask's assignment
\* rows, its status and its started_at as they were (a step that changes
\* them is not such a claim)
C5_ClaimIdempotent ==
    /\ [](\A a \in DOMAIN assignments : CopiesIn(a, assignments) = 1)
    /\ [][\A u \in Users, pk \in TaskIds, sel \in SUBSET SubtaskIds :
             \A s \in sel \cap DOMAIN subtasks :
                 Assigned(DB, s, u) => (ClaimKept(s) \/ ~TakeTask(u, pk, sel))]_vars

\* C5 witness: the same user claimed the same subtasks of a task twice
C5_Witness ==
    \E i, j \in 1..Len(actions) :
        /\ i < j
        /\ actions[i].action_type = "assigned"
        /\ actions[j] = actions[i]
        /\ \E s \in DOMAIN subtasks :
              subtasks[s].task = actions[i].task /\ Assigned(DB, s, actions[i].user)

----------------------------------------------------------------------------
(* Subtask lifecycle *)

Rank(st) == CASE st = "pending" -> 0 [] st = "in_progress" -> 1 [] OTHER -> 2

\* C6: no request moves a subtask's status backwards along
\* pending -> in_progress -> completed
C6_StatusMonotonic ==
    [][\A s \in DOMAIN subtasks \cap DOMAIN subtasks' :
          Rank(subtasks'[s].status) >= Rank(subtasks[s].status)]_vars

\* C6 witness: a completed subtask went through the edit form and is still
\* completed
C6_Witness ==
    \E s \in DOMAIN subtasks :
        subtasks[s].status = "completed" /\ subtasks[s].name = "Renamed"

----------------------------------------------------------------------------
(* Template instantiation *)

\* the tasks a step creates
Created == DOMAIN tasks' \ DOMAIN tasks

\* the subtasks of task t after the step
NewSubtasksOf(t) == {s \in DOMAIN subtasks' : subtasks'[s].task = t}

\* C8: a task created from a template with N link rows gets exactly N
\* subtasks whose orders are 0..N-1 in the template's ordering, on either
\* creation endpoint and whatever order values the link rows carry
C8_TemplateCopyOrders ==
    [][\A t \in Created :
          tasks'[t].template # None =>
             LET tp == tasks'[t].template
                 N == Cardinality(LinksOf(tp))
             IN  /\ Cardinality(NewSubtasksOf(t)) = N
                 /\ {subtasks'[s].order : s \in NewSubtasksOf(t)} = 0..(N - 1)
                 /\ \E ordered \in get_subtask_templates(tp) :
                       \A k \in 1..N :
                          \E s \in NewSubtasksOf(t) :
                             /\ subtasks'[s].order = k - 1
                             /\ subtasks'[s].name = LinkName(ordered[k])]_vars

\* C9: the subtasks of a task created from a template carry exactly the
\* names of the template's items, one subtask per item, and the template,
\* its link rows and the items are unchanged
C9_TemplateCopyNames ==
    [][\A t \in Created :
          tasks'[t].template # None =>
             LET tp == tasks'[t].template
             IN  /\ \A l \in LinksOf(tp) :
                       Cardinality({s \in NewSubtasksOf(t) : subtasks'[s].name = LinkName(l)}) = 1
                 /\ \A s \in NewSubtasksOf(t) :
                       \E l \in LinksOf(tp) : subtasks'[s].name = LinkName(l)
                 /\ templates' = templates
                 /\ links' = links
                 /\ items' = items]_vars

\* C10: a step that creates a task appends exactly one audit entry, of type
\* created, for the new task; the new task is available and each of its
\* subtasks is pending, without timestamps and without assignments
C10_CreationLogsOnceAndStartsFresh ==
    [][\A t \in Created :
          /\ Len(actions') = Len(actions) + 1
          /\ SubSeq(actions', 1, Len(actions)) = actions
          /\ actions'[Len(actions')].action_type = "created"
          /\ actions'[Len(actions')].task = t
          /\ tasks'[t].status = "available"
          /\ \A s \in NewSubtasksOf(t) :
                /\ s \notin DOMAIN subtasks
                /\ subtasks'[s].status = "pending"
                /\ subtasks'[s].started_at = None
                /\ subtasks'[s].completed_at = None
                /\ \A u \in Users : CopiesIn(<<s, u>>, assignments') = 0]_vars

\* C10 witness: the last request created a task with subtasks, and the log
\* ends with its created entry
C10_Witness ==
    /\ message.text = "task_created"
    /\ actions # <<>>
    /\ actions[Len(actions)].action_type = "created"
    /\ actions[Len(actions)].user = message.user
    /\ \E s \in DOMAIN subtasks :
          /\ subtasks[s].task = actions[Len(actions)].task
          /\ subtasks[s].status = "pending"

----------------------------------------------------------------------------
(* Manual creation *)

\* C11: a creation request by a manager or admin that names no template and
\* submits free-text subtask names creates a task without template and one
\* subtask per submitted (non-blank) name, its order the name's position
C11_ManualCreation ==
    [][\A u \in Users, title \in Titles, date \in Dates, names \in ManualNameLists :
          (ManagerOrAdmin(u) /\ HttpManagementTaskCreate(u, title, date, None, names))
          => \E t \in Created :
                /\ tasks'[t].template = None
                /\ Cardinality(NewSubtasksOf(t))
                      = Cardinality({i \in 1..Len(names) : names[i] # ""})
                /\ \A i \in 1..Len(names) :
                      names[i] # "" =>
                         \E s \in NewSubtasksOf(t) :
                            subtasks'[s].name = names[i] /\ subtasks'[s].order = i - 1]_vars

----------------------------------------------------------------------------
(* Claim requests *)

\* C12: a valid claim request appends exactly one audit entry, of type
\* assigned, whose details list exactly the names of the selected subtasks,
\* one or many; a claim request whose form is invalid appends nothing.
\* (A claim on an existing task always queues one of the two messages, in
\* the name of the claiming user.)
C12_OneAssignedEntryPerClaim ==
    [][message'.text \in {"taken", "take_none_selected"} =>
          \A pk \in DOMAIN tasks, sel \in SUBSET SubtaskIds :
             TakeTask(message'.user, pk, sel)
             => IF TakeTaskFormValid(DB, pk, sel)
                THEN /\ Len(actions') = Len(actions) + 1
                     /\ SubSeq(actions', 1, Len(actions)) = actions
                     /\ LET e == actions'[Len(actions')]
                        IN  /\ e.action_type = "assigned"
                            /\ e.task = pk
                            /\ e.user = message'.user
                            /\ Len(e.details.subtasks) = Cardinality(sel)
                            /\ Range(e.details.subtasks) = {subtasks[s].name : s \in sel}
                ELSE actions' = actions]_vars

\* C12 witness: the last request claimed two subtasks at once and the log
\* ends with one entry naming both
C12_Witness ==
    /\ message.text = "taken"
    /\ message.arg = 2
    /\ actions # <<>>
    /\ actions[Len(actions)].action_type = "assigned"
    /\ Len(actions[Len(actions)].details.subtasks) = 2
    /\ Len(actions) = 2

\* C13: after a valid claim by a user every selected subtask has an
\* assignment row for that user, is not pending and has started_at set; one
\* that was pending and unassigned is in_progress, started at the time of the
\* request, and the task's status is then the one derived from its subtasks
C13_ClaimStartsSubtasks ==
    [][message'.text = "taken" =>
          \A pk \in DOMAIN tasks, sel \in SUBSET SubtaskIds :
             (TakeTaskFormValid(DB, pk, sel) /\ TakeTask(message'.user, pk, sel))
             => /\ \A s \in sel :
                      /\ CopiesIn(<<s, message'.user>>, assignments') = 1
                      /\ subtasks'[s].status # "pending"
                      /\ subtasks'[s].started_at # None
                      /\ (subtasks[s].status = "pending" /\ Assignees(DB, s) = {})
                         => /\ subtasks'[s].status = "in_progress"
                            /\ subtasks'[s].started_at = now
                /\ (\E s \in sel : subtasks[s].status = "pending")
                   => tasks'[pk].status = DerivedStatus(subtasks', pk)]_vars

\* C13 witness: the last request claimed two subtasks, both are now started
\* at the later instant and held by the claiming user, and the task is in
\* progress
C13_Witness ==
    /\ message.text = "taken"
    /\ message.arg = 2
    /\ \E t \in DOMAIN tasks :
          /\ tasks[t].status = "in_progress"
          /\ Cardinality({s \in DOMAIN subtasks :
                            /\ subtasks[s].task = t
                            /\ subtasks[s].status = "in_progress"
                            /\ subtasks[s].started_at = 3690
                            /\ Assigned(DB, s, message.user)}) = 2

\* C14: mark_in_progress called on a subtask that is not pending leaves its
\* status, started_at and completed_at as they were; and no call and no
\* claim changes a started_at that is already set
C14_MarkInProgressOnlyFromPending ==
    [][/\ \A s \in SubtaskIds :
            (MarkInProgressCall(s) /\ subtasks[s].status # "pending")
            => /\ subtasks'[s].status = subtasks[s].status
               /\ subtasks'[s].started_at = subtasks[s].started_at
               /\ subtasks'[s].completed_at = subtasks[s].completed_at
       /\ \A s \in DOMAIN subtasks :
            subtasks[s].started_at # None
            => subtasks'[s].started_at = subtasks[s].started_at]_vars

\* C14 witness: mark_in_progress was called at the later instant on a
\* completed subtask, which still carries its first start
C14_Witness ==
    /\ message.text = "mark_in_progress"
    /\ now = 3690
    /\ message.arg \in DOMAIN subtasks
    /\ subtasks[message.arg].status = "completed"
    /\ subtasks[message.arg].started_at = 0

----------------------------------------------------------------------------
(* Completion entries *)

\* a duration of d seconds in whole minutes, and as hours and minutes
WholeMinutes(d) == d \div 60

HoursAndMinutes(d) ==
    IF d >= 3600
    THEN [fmt |-> "Hh Mm", hours |-> d \div 3600, minutes |-> (d % 3600) \div 60]
    ELSE [fmt |-> "Mm", minutes |-> d \div 60]

\* the completed entries of task t in the log
CompletedEntries(t) ==
    {i \in 1..Len(actions) : actions[i].task = t /\ actions[i].action_type = "completed"}

\* C15: a successful completion appends exactly one audit entry, of type
\* completed, for the parent task and by the completing user, whose
\* duration_minutes and duration_formatted are the time from the subtask's
\* started_at to the completed_at just written; and a task whose K >= 1
\* subtasks are all completed has status completed and a completed entry for
\* each of them
C15_CompletionEntry ==
    /\ [][message'.text = "subtask_completed" =>
             \A pk \in DOMAIN subtasks :
                (Assigned(DB, pk, message'.user) /\ CompleteSubtask(message'.user, pk))
                => /\ Len(actions') = Len(actions) + 1
                   /\ SubSeq(actions', 1, Len(actions)) = actions
                   /\ subtasks'[pk].completed_at = now
                   /\ LET e == actions'[Len(actions')]
                          d == subtasks'[pk].completed_at - subtasks[pk].started_at
                      IN  /\ e.action_type = "completed"
                          /\ e.task = subtasks[pk].task
                          /\ e.user = message'.user
                          /\ e.details.subtask = subtasks[pk].name
                          /\ e.details.duration_minutes = WholeMinutes(d)
                          /\ e.details.duration_formatted = HoursAndMinutes(d)]_vars
    /\ [](\A t \in DOMAIN tasks :
            LET mine == SubtasksOf(DB, t)
            IN  (mine # {} /\ \A s \in mine : subtasks[s].status = "completed")
                => /\ tasks[t].status = "completed"
                   /\ Cardinality(CompletedEntries(t)) >= Cardinality(mine)
                   /\ \A s \in mine :
                         \E i \in CompletedEntries(t) :
                            actions[i].details.subtask = subtasks[s].name)

\* C15 witness: both subtasks of a task were completed once each, an hour
\* and a minute after they were started; the task is completed and the log
\* holds two completed entries for it
C15_Witness ==
    \E t \in DOMAIN tasks :
        /\ tasks[t].status = "completed"
        /\ Cardinality(SubtasksOf(DB, t)) = 2
        /\ \A s \in SubtasksOf(DB, t) : subtasks[s].status = "completed"
        /\ Cardinality(CompletedEntries(t)) = 2
        /\ \A i \in CompletedEntries(t) :
              /\ actions[i].details.duration_minutes = 61
              /\ actions[i].details.duration_formatted
                    = [fmt |-> "Hh Mm", hours |-> 1, minutes |-> 1]

----------------------------------------------------------------------------
(* Who writes Task.status *)

\* the step gives task t a status it did not have, or creates t
StatusWritten(t) == t \notin DOMAIN tasks \/ tasks'[t].status # tasks[t].status

----------------------------------------------------------------------------
(* Who may manage templates *)

\* C17: a template create, edit or delete request, on any route, by a client
\* who is not an admin is refused and leaves templates, link rows and items
\* unchanged
C17_OnlyAdminsManageTemplates ==
    [][(response'.view \in TemplateViews /\ ~(response'.user \in Users /\ is_admin(response'.user)))
          => /\ response'.status \in {"login", "forbidden"}
             /\ templates' = templates
             /\ links' = links
             /\ items' = items]_vars

----------------------------------------------------------------------------
(* Who may manage tasks and subtasks *)

\* the views that create, edit or delete a task, or edit or delete a subtask
ManagerViews ==
    {"task_create", "management_task_create", "task_update", "task_delete",
     "subtask_update", "subtask_delete"}

\* C18: a request to create, edit or delete a task, or to delete, rename or
\* reorder a subtask, is turned away when it comes from an employee or from
\* a client without a session, and then no Task, Subtask, SubtaskAssignment
\* or TaskAction row changes; from an admin or manager it is not turned away
\* for lack of rights
C18_OnlyManagersManageTasks ==
    [][response'.view \in ManagerViews =>
          IF response'.user \in Users /\ can_create_tasks(response'.user)
          THEN response'.status \notin {"login", "forbidden"}
          ELSE /\ response'.status \in {"login", "forbidden"}
               /\ tasks' = tasks
               /\ subtasks' = subtasks
               /\ assignments' = assignments
               /\ actions' = actions]_vars

\* C18 witness: an employee who holds a subtask asked to delete its task and
\* got the forbidden reply; the task is still there
C18_Witness ==
    /\ response.view = "task_delete"
    /\ response.status = "forbidden"
    /\ is_employee(response.user)
    /\ \E s \in DOMAIN subtasks :
          Assigned(DB, s, response.user) /\ subtasks[s].task \in DOMAIN tasks

----------------------------------------------------------------------------
(* The audit log *)

\* C19: the audit log only grows: every row in it before a request is in it,
\* unmodified and in the same place, after the request
C19_AuditLogAppendOnly ==
    [][/\ Len(actions') >= Len(actions)
       /\ SubSeq(actions', 1, Len(actions)) = actions]_vars

\* C20: whenever a task row is removed, a deleted entry for that task by a
\* manager or admin, recording its title and date, is already in the log,
\* and the task's subtasks and their assignments are removed with it
C20_DeletionLoggedFirst ==
    [][\A t \in DOMAIN tasks \ DOMAIN tasks' :
          /\ \E i \in 1..Len(actions) :
                /\ actions[i].task = t
                /\ actions[i].action_type = "deleted"
                /\ can_create_tasks(actions[i].user)
                /\ actions[i].details = [title |-> tasks[t].title, date |-> str(tasks[t].date)]
          /\ \A s \in DOMAIN subtasks' : subtasks'[s].task # t
          /\ \A s \in SubtasksOf(DB, t), u \in Users :
                CopiesIn(<<s, u>>, assignments') = 0]_vars

----------------------------------------------------------------------------
(* Atomicity of the mutating requests *)

HasEntry(t, type, ok(_)) ==
    \E i \in 1..Len(actions) :
        /\ actions[i].task = t
        /\ actions[i].action_type = type
        /\ ok(actions[i])

\* C21: every mutating request is atomic. In every state, which is a state
\* another request can read and the state a failed request leaves behind,
\* the writes of each operation are there together: a task has its created
\* entry, an assignment has the assigned entry of its claim, a completed
\* subtask has its completed entry and its task's status is recomputed, a
\* deleted entry is there only once its task is gone
C21_OperationsAtomic ==
    /\ \A t \in DOMAIN tasks :
          /\ HasEntry(t, "created", LAMBDA a : TRUE)
          /\ tasks[t].status = DerivedStatus(subtasks, t)
          /\ ~HasEntry(t, "deleted", LAMBDA a : TRUE)
    /\ \A s \in DOMAIN subtasks :
          /\ \A u \in Assignees(DB, s) :
                HasEntry(subtasks[s].task, "assigned",
                         LAMBDA a : /\ a.user = u
                                    /\ \E i \in 1..Len(a.details.subtasks) :
                                          a.details.subtasks[i] = subtasks[s].name)
          /\ subtasks[s].status = "completed" =>
                HasEntry(subtasks[s].task, "completed",
                         LAMBDA a : a.details.subtask = subtasks[s].name)

----------------------------------------------------------------------------
(* The derived status under concurrent requests *)

Quiescent == \A w \in Workers : requests[w].pc = "idle"

\* C22: whatever the interleaving of concurrent claim, complete and
\* subtask-delete requests, once every request has finished the stored
\* status of every task is the one derived from its subtasks
C22_StatusDerivedAfterRaces ==
    Quiescent => \A t \in DOMAIN tasks : tasks[t].status = DerivedStatus(subtasks, t)

----------------------------------------------------------------------------
(* Two users complete the same subtask at the same time *)

BothCompleted == \A w \in Workers : requests[w].pc = "idle" /\ requests[w].served = 1

\* the completed entries user u has written for the subtask named name
CompletedBy(u, name) ==
    {i \in 1..Len(actions) : /\ actions[i].action_type = "completed"
                             /\ actions[i].user = u
                             /\ actions[i].details.subtask = name}

\* C23: when two assigned users complete the same subtask concurrently, the
\* subtask ends completed with the completed_at one of the two requests
\* wrote, the task status is the derived one, and each request has written
\* its own completed entry
C23_ConcurrentCompletes ==
    BothCompleted =>
        /\ subtasks[1].status = "completed"
        /\ \A w \in Workers : Cardinality(CompletedBy(Completer(w), subtasks[1].name)) = 1
        /\ \E w \in Workers : \A i \in CompletedBy(Completer(w), subtasks[1].name) :
              actions[i].details.completed_at = isoformat(subtasks[1].completed_at)
        /\ tasks[1].status = DerivedStatus(subtasks, 1)

\* C23 witness: both requests are done and the completed_at that stays is
\* not the one of the request that logged last: the two were interleaved
C23_Witness ==
    /\ BothCompleted
    /\ actions[Len(actions)].details.completed_at # isoformat(subtasks[1].completed_at)

----------------------------------------------------------------------------
(* The dashboard groups *)

TaskDates == {tasks[t].date : t \in DOMAIN tasks}

Shown == response.view = "dashboard"

\* the groups are the days first..last, one group a day, with the tasks of
\* that day and a placeholder where there is none
GroupsAre(groups, first, last) ==
    /\ Len(groups) = IF last >= first THEN last - first + 1 ELSE 0
    /\ \A i \in 1..Len(groups) :
          /\ groups[i].date = first + i - 1
          /\ groups[i].has_tasks = (groups[i].date \in TaskDates)
          /\ {groups[i].tasks[j] : j \in 1..Len(groups[i].tasks)} =
                {t \in DOMAIN tasks : tasks[t].date = groups[i].date}

\* C24: in mode=all the groups are the consecutive days from
\* max(today-3, earliest task date) to the latest task date, with a
\* placeholder for each day without a task
C24_GroupsFromEarliestTask ==
    (Shown /\ TaskDates # {}) =>
        GroupsAre(response.groups, Max({Today - 3, Min(TaskDates)}), Max(TaskDates))

\* the dates of the tasks the dashboard lists: those dated today-3 or later
ListedDates == {d \in TaskDates : d >= Today - 3}

\* C24 as amended: the groups are the consecutive days from the earliest
\* date of a task dated today-3 or later to the latest task date, with a
\* placeholder for each day in between without a task, and no group when
\* there is no such task
C24_GroupsFromEarliestListedTask ==
    Shown =>
        IF ListedDates = {} THEN response.groups = <<>>
        ELSE GroupsAre(response.groups, Min(ListedDates), Max(TaskDates))

\* C24 witness: tasks on today-5, today-1, today and today+2; the groups run
\* from today-1 to today+2 with one placeholder, on today+1
C24_Witness ==
    /\ Shown
    /\ TaskDates = {Today - 5, Today - 1, Today, Today + 2}
    /\ Len(response.groups) = 4
    /\ response.groups[1].date = Today - 1
    /\ ~response.groups[3].has_tasks
    /\ response.groups[3].tasks = <<>>
    /\ response.groups[4].date = Today + 2

----------------------------------------------------------------------------
(* Durations *)

Measured == response.view = "duration"

BothStamps(row) == row.started_at # None /\ row.completed_at # None

\* C25: get_duration_minutes is (completed_at - started_at) in whole
\* minutes rounded down, for every pair of timestamps, and 0 when one of
\* them is missing
C25_DurationMinutesFloored ==
    Measured =>
        LET row == subtasks[response.pk]
        IN  response.minutes = IF BothStamps(row)
                               THEN (row.completed_at - row.started_at) \div 60
                               ELSE 0

\* the hours and the minutes a formatted duration shows
ShownHours(f) == IF f.fmt = "Hh Mm" THEN f.hours ELSE 0

\* C26: get_duration_formatted shows hours H and minutes M with 0 <= M < 60
\* and 60*H + M = get_duration_minutes; the form with hours is used exactly
\* when the elapsed time is an hour or more; without both timestamps the
\* 'not completed' marker is returned and no duration
C26_DurationFormatted ==
    Measured =>
        LET row == subtasks[response.pk]
            f == response.formatted
        IN  IF ~BothStamps(row) THEN f.fmt = "not completed"
            ELSE /\ f.fmt \in {"Hh Mm", "Mm"}
                 /\ f.fmt = "Hh Mm" <=> row.completed_at - row.started_at >= 3600
                 /\ 0 <= f.minutes /\ f.minutes < 60
                 /\ 60 * ShownHours(f) + f.minutes = response.minutes

----------------------------------------------------------------------------
(* The subtask lifecycle under concurrent requests *)

\* C27: with claim, complete and rename/reorder requests interleaved, no
\* write takes a subtask back: its status never moves to an earlier one, a
\* completion keeps its completed_at, and started_at is never after
\* completed_at
C27_NoRegressUnderConcurrency ==
    [][\A s \in DOMAIN subtasks \cap DOMAIN subtasks' :
          /\ Rank(subtasks'[s].status) >= Rank(subtasks[s].status)
          /\ subtasks[s].completed_at # None => subtasks'[s].completed_at # None
          /\ (subtasks'[s].started_at # None /\ subtasks'[s].completed_at # None)
                => subtasks'[s].started_at <= subtasks'[s].completed_at]_vars

----------------------------------------------------------------------------
(* Completing and claiming completed subtasks *)

\* C28: a completed subtask cannot be completed again: no request changes
\* its completed_at and no further completed entry is written for it
C28_CompletedOnlyOnce ==
    [][\A s \in DOMAIN subtasks :
          subtasks[s].status = "completed" =>
             /\ s \in DOMAIN subtasks' => subtasks'[s].completed_at = subtasks[s].completed_at
             /\ \A i \in (Len(actions) + 1)..Len(actions') :
                   ~ /\ actions'[i].action_type = "completed"
                     /\ actions'[i].task = subtasks[s].task
                     /\ actions'[i].details.subtask = subtasks[s].name]_vars

\* a selection TakeTaskForm has to refuse for task pk: nothing, a subtask
\* that is not of the task, or a completed subtask
BadSelection(pk, sel) ==
    \/ sel = {}
    \/ \E s \in sel : \/ s \notin DOMAIN subtasks
                      \/ subtasks[s].task # pk
                      \/ subtasks[s].status = "completed"

TablesKept == UNCHANGED <<tasks, subtasks, assignments, actions>>

====
